---- MODULE Spec2Model ----
(***************************************************************************)
(* A model of the Streamlink session (src/src/streamlink/session.py):      *)
(* the plugin registry (self.plugins, load_plugins, get_plugins), the      *)
(* memoized URL resolver (resolve_url under functools.lru_cache) and the   *)
(* option router (set_option / get_option).                                *)
(***************************************************************************)
EXTENDS Integers, Sequences, FiniteSets, TLC

\* ------------------------------------------------------------------ bounds
\* Capacity of the lru_cache in the model: the decorator's maxsize=128
\* (line 440), scaled down so that eviction happens within the bounds.
CacheSize == 2
\* Depth of nested resolve_url frames at which the interpreter raises
\* RecursionError (the interpreter's recursion limit, scaled down).
RecursionLimit == 3
\* Number of top-level resolve_url calls in one behaviour.
MaxCalls == 2
\* Number of set_option calls in one behaviour of the option router.
MaxSets == 4

VARIABLES
    plugins,    \* self.plugins: OrderedDict as a sequence of [name, cls]
    cache,      \* the lru_cache of resolve_url: entries [key, val], LRU first
    stack,      \* frames of resolve_url that are running (recursion at line 474)
    pc,         \* where the running resolve_url call is: idle, head, get
    call,       \* arguments of the current / last top-level resolve_url call
    outcome,    \* what the current / last top-level resolve_url call produced
    trace,      \* requests issued on self.http by the current / last call
    again,      \* "no", or what the previous call produced when the current
                \* call repeats its arguments
    ncalls,     \* top-level resolve_url calls made so far
    ninst,      \* plugin instances constructed so far
    lpc,        \* where load_plugins is: idle, loop
    lpath,      \* its path argument
    lidx,       \* index of the next module pkgutil.iter_modules yields
    success,    \* its local variable success / its return value
    lraised,    \* exception that left the last load_plugins call, or "none"
    lbefore,    \* the registry as it was when the running load_plugins began
    lregistered, \* modules the current / last load_plugins call registered
    lrequester, \* its local variable user_input_requester
    bound,      \* what bind left on the plugin class registered under a name
    returned,   \* what get_plugins handed to its caller
    heldAt,     \* contents of the registry when get_plugins returned
    options,    \* self.options: the generic option store
    gai,        \* urllib3_connection.allowed_gai_family (process global)
    initopts,   \* the options argument the session was constructed with
    nsets,      \* set_option calls made so far
    lastset,    \* the last set_option call
    http,       \* self.http: proxies and settings of the transport
    ciphers,    \* times ":!DH" was appended to urllib3's DEFAULT_CIPHERS
    oraised,    \* exception that left the last set_option call, or "none"
    spc,        \* where streams is: idle, resolving
    sparams,    \* the params of the current / last streams call
    enumerated, \* plugin.streams(**params) invocations of that call
    sresult,    \* what the current / last streams call produced
    peerOptions, \* self.options of a second session of the process
    peerSet,    \* the last set_option call on the second session
    npsets,     \* set_option calls made on the second session
    peerCall,   \* arguments of the last resolve_url call on the second session
    peerOutcome, \* what that call produced
    npeer       \* resolve_url calls made on the second session

rvars == <<cache, stack, pc, call, outcome, trace, again, ncalls, ninst>>
lvars == <<lpc, lpath, lidx, success, lraised, lbefore, lregistered,
           lrequester, bound>>
gvars == <<returned, heldAt>>
ovars == <<options, gai, initopts, nsets, lastset, http, ciphers, oraised>>
svars == <<spc, sparams, enumerated, sresult>>
pvars == <<peerOptions, peerSet, npsets, peerCall, peerOutcome, npeer>>
vars == <<plugins, rvars, lvars, gvars, ovars, svars, pvars>>

\* ------------------------------------------------------------------- URLs
\* A URL is its scheme ("" when it has none) and the rest of it.
Url(s, r) == [scheme |-> s, rest |-> r]

\* streamlink.utils.update_scheme(current, target): the target gets the
\* scheme of current when it has none.
update_scheme(current, target) ==
    IF target.scheme = "" THEN [target EXCEPT !.scheme = current] ELSE target

Rests == {"a.tv", "b.tv", "r.tv", "s.tv"}
NormUrls == {Url("http", r) : r \in Rests}

\* ---------------------------------------------------------------- plugins
\* The plugin classes that the modules of the plugin directories define.
\* Plugin.can_handle_url(url) and Plugin.priority(url) of each class.
can_handle_url(cls, url) ==
    CASE cls = "A1" -> url \in {Url("http", "a.tv"), Url("http", "b.tv")}
      [] cls = "B1" -> url = Url("http", "a.tv")
      [] cls = "B2" -> url = Url("http", "a.tv")
      [] cls = "A2" -> url = Url("http", "s.tv")
      [] cls = "G1" -> url \in {Url("http", "a.tv"), Url("http", "s.tv")}
      [] OTHER -> FALSE

priority(cls, url) ==
    CASE cls = "A1" -> 20
      [] cls = "B1" -> 20
      [] cls = "B2" -> 20
      [] cls = "A2" -> 30
      [] cls = "G1" -> 30
      [] OTHER -> 0

\* pkgutil.iter_modules([path]): the candidate modules of a directory, in
\* the order they are enumerated.  kind says what loading the module gives:
\* a module with a Plugin subclass as __plugin__, an ImportError, a module
\* without __plugin__, a module whose __plugin__ is no Plugin subclass, a
\* module whose __plugin__ is not a class at all, a module with a syntax
\* error.
Mod(n, k, c) == [name |-> n, kind |-> k, cls |-> c]
Paths == {"builtin", "extra"}
iter_modules(path) ==
    CASE path = "builtin" -> << Mod("alpha", "plugin", "A1"),
                                Mod("beta", "plugin", "B1") >>
      [] path = "extra" -> << Mod("alpha", "plugin", "A2"),
                              Mod("broken", "ImportError", "none"),
                              Mod("gamma", "plugin", "G1"),
                              Mod("helper", "no_plugin_attr", "none") >>
      [] path = "extra_one_bad" -> << Mod("alpha", "plugin", "A2"),
                                      Mod("broken", "ImportError", "none"),
                                      Mod("gamma", "plugin", "G1") >>
      [] path = "faulty" -> << Mod("alpha", "plugin", "A1"),
                               Mod("config", "not_a_class", "none"),
                               Mod("gamma", "plugin", "G1") >>
      [] path = "faulty_first" -> << Mod("config", "not_a_class", "none"),
                                     Mod("alpha", "plugin", "A1"),
                                     Mod("gamma", "plugin", "G1") >>
      [] path = "faulty_last" -> << Mod("alpha", "plugin", "A1"),
                                    Mod("gamma", "plugin", "G1"),
                                    Mod("typo", "SyntaxError", "none") >>
      [] path = "more" -> << Mod("beta", "plugin", "B2"),
                             Mod("delta", "plugin", "D1"),
                             Mod("alpha", "plugin", "A1") >>
      [] path = "invalid" -> << Mod("broken", "ImportError", "none"),
                                Mod("helper", "no_plugin_attr", "none"),
                                Mod("other", "not_subclass", "none") >>
      [] OTHER -> << >>
\* Directories with one module that cannot be used beside two valid ones.
FaultyPaths == {"extra_one_bad", "faulty", "faulty_first", "faulty_last"}
\* Every directory load_plugins is called with.
LoadPaths == Paths \cup FaultyPaths \cup {"more", "invalid"}

\* --------------------------------------------------------------- registry
HasName(reg, n) == \E i \in 1..Len(reg) : reg[i].name = n

\* A registry that is a list of registrations: every one is appended.
SetItemAppend(reg, n, c) == Append(reg, [name |-> n, cls |-> c])

\* self.plugins[plugin.module] = plugin on an OrderedDict: an existing key
\* keeps its position, a new key goes to the end.
SetItem(reg, n, c) ==
    IF HasName(reg, n)
    THEN [i \in 1..Len(reg) |->
            IF reg[i].name = n THEN [name |-> n, cls |-> c] ELSE reg[i]]
    ELSE Append(reg, [name |-> n, cls |-> c])

\* One iteration of the loop of load_plugins: what it does to the registry.
\* except ImportError (line 525) catches that exception only; a module
\* without __plugin__ or with a class that is no Plugin subclass is skipped
\* (lines 529-530); issubclass raises TypeError when __plugin__ is not a
\* class, and any other exception of the import leaves load_module.
LoadModuleRaises(m) == m.kind \notin {"plugin", "ImportError", "no_plugin_attr", "not_subclass"}
LoadModuleValid(m) == m.kind = "plugin"
LoadModule(reg, m) ==
    IF LoadModuleValid(m) THEN SetItem(reg, m.name, m.cls) ELSE reg
\* The exception that leaves load_plugins at module m.
RaisedBy(m) == IF m.kind = "not_a_class" THEN "TypeError" ELSE m.kind
\* success = True placed before the check of __plugin__.
SuccessAfterLoad(s, m) == s \/ m.kind \notin {"ImportError"}
\* success = True (line 531), after the two continue statements.
SuccessAfter(s, m) == s \/ LoadModuleValid(m)

\* The whole loop, run without interruption.
RECURSIVE LoadAll(_, _)
LoadAll(reg, mods) ==
    IF mods = << >> THEN reg
    ELSE IF LoadModuleRaises(Head(mods)) THEN reg
    ELSE LoadAll(LoadModule(reg, Head(mods)), Tail(mods))

\* ------------------------------------------------------------- resolve_url
Front(s) == SubSeq(s, 1, Len(s) - 1)
Last(s) == s[Len(s)]

\* for name, plugin in self.plugins.items(): if plugin.can_handle_url(url)
RECURSIVE available_plugins(_, _)
available_plugins(reg, url) ==
    IF reg = << >> THEN << >>
    ELSE IF can_handle_url(Head(reg).cls, url)
         THEN <<Head(reg)>> \o available_plugins(Tail(reg), url)
         ELSE available_plugins(Tail(reg), url)

\* list.sort(key=lambda x: x.priority(url), reverse=True): a stable sort,
\* elements of equal priority keep their order.
RECURSIVE InsertDesc(_, _, _)
InsertDesc(sorted, p, url) ==
    IF sorted = << >> THEN <<p>>
    ELSE IF priority(Head(sorted).cls, url) >= priority(p.cls, url)
         THEN <<Head(sorted)>> \o InsertDesc(Tail(sorted), p, url)
         ELSE <<p>> \o sorted

\* Mutant of sort_reverse: the list is not sorted.
sort_reverse_unsorted(seq, url) == seq

RECURSIVE sort_reverse(_, _)
sort_reverse(seq, url) ==
    IF seq = << >> THEN << >>
    ELSE InsertDesc(sort_reverse(Front(seq), url), Last(seq), url)

NoInst == [cls |-> "none", url |-> Url("", ""), id |-> 0]

\* Mutant of Key: the key also holds the registry as it is at the call.
KeyWithRegistry(url, form, fr) ==
    [self |-> "s1", url |-> url, form |-> form, fr |-> fr, reg |-> plugins]

\* Mutant of Key: a key made of the URL and the value of follow_redirect,
\* however they were passed.
KeyByValue(url, form, fr) == [self |-> "s1", url |-> url, form |-> "any", fr |-> fr]

\* Mutant of Key: a key made of the URL after normalization.
KeyNormalized(url, form, fr) ==
    [self |-> "s1", url |-> update_scheme("http", url), form |-> form, fr |-> fr]

\* The key lru_cache makes of a call: the positional arguments (self, url
\* and follow_redirect when given by position) and the keyword arguments,
\* with the URL as it was passed.
\* form: "dflt" resolve_url(url), "pos" resolve_url(url, f),
\* "kw" resolve_url(url, follow_redirect=f).
Key(url, form, fr) == [self |-> "s1", url |-> url, form |-> form, fr |-> fr]
Call(u, form, fr) == [url |-> u, form |-> form, fr |-> fr]
\* The calls the user of the session makes in the model.
Calls ==
    { Call(Url("", "a.tv"), "dflt", TRUE),
      Call(Url("http", "a.tv"), "dflt", TRUE),
      Call(Url("http", "a.tv"), "pos", TRUE),
      Call(Url("http", "a.tv"), "kw", TRUE),
      Call(Url("http", "a.tv"), "pos", FALSE),
      Call(Url("http", "a.tv"), "kw", FALSE),
      Call(Url("http", "b.tv"), "kw", FALSE),
      Call(Url("http", "r.tv"), "pos", TRUE),
      Call(Url("http", "s.tv"), "kw", FALSE) }
NoCall == [url |-> Url("", ""), form |-> "none", fr |-> FALSE]

InCache(c, k) == \E i \in 1..Len(c) : c[i].key = k
CacheIndex(c, k) == CHOOSE i \in 1..Len(c) : c[i].key = k
CacheVal(c, k) == c[CacheIndex(c, k)].val
Without(c, i) == SubSeq(c, 1, i - 1) \o SubSeq(c, i + 1, Len(c))
\* A hit moves the entry to the most recently used end.
Touch(c, k) == Append(Without(c, CacheIndex(c, k)), c[CacheIndex(c, k)])
\* Mutant of CachePut: the result is not stored.
CachePutNothing(c, k, v) == c
\* Mutant of CachePut: a full cache is emptied before the result is stored.
CachePutFlush(c, k, v) ==
    IF InCache(c, k) THEN c
    ELSE IF Len(c) >= CacheSize THEN <<[key |-> k, val |-> v]>>
    ELSE Append(c, [key |-> k, val |-> v])
\* Mutant of CachePut: a full cache drops its most recently used entry.
CachePutDropNewest(c, k, v) ==
    IF InCache(c, k) THEN c
    ELSE IF Len(c) >= CacheSize THEN Append(Front(c), [key |-> k, val |-> v])
    ELSE Append(c, [key |-> k, val |-> v])

\* After the wrapped function returned: store the result, evicting the
\* least recently used entry of a full cache.
CachePut(c, k, v) ==
    IF InCache(c, k) THEN c
    ELSE IF Len(c) >= CacheSize THEN Append(Tail(c), [key |-> k, val |-> v])
    ELSE Append(c, [key |-> k, val |-> v])

\* Mutant of StoreAll: only the innermost frame stores the value.
StoreInnermost(c, stk, v) ==
    IF stk = << >> THEN c ELSE CachePut(c, Last(stk).key, v)

\* A value returned through the frames stk, innermost (last) first: the
\* wrapper of each frame stores it under that frame's key.
RECURSIVE StoreAll(_, _, _)
StoreAll(c, stk, v) ==
    IF stk = << >> THEN c
    ELSE StoreAll(CachePut(c, Last(stk).key, v), Front(stk), v)

\* Mutant of except_PluginError: except NoPluginError.
except_NoPluginError(e) == e = "NoPluginError"

\* except PluginError (line 475).  NoPluginError is a PluginError.
except_PluginError(e) == e \in {"PluginError", "NoPluginError"}
\* An exception raised inside the try block: swallowed when the except
\* clause catches it, and then line 478 raises NoPluginError.
Propagate(e) == IF except_PluginError(e) THEN "NoPluginError" ELSE e

Return(stk, v, c) ==
    /\ cache' = StoreAll(c, stk, v)
    /\ stack' = << >>
    /\ pc' = "idle"
    /\ outcome' = [kind |-> "instance", inst |-> v]

\* Mutant of Raise: the failure is stored in the cache under the key of
\* every frame it leaves.
RaiseCached(stk, e) ==
    /\ cache' = StoreAll(cache, stk, NoInst)
    /\ stack' = << >>
    /\ pc' = "idle"
    /\ outcome' = [kind |-> e, inst |-> NoInst]
    /\ ninst' = ninst

\* An exception e leaves the frames stk: lru_cache stores nothing for a
\* call that raised.
Raise(stk, e) ==
    /\ stack' = << >>
    /\ pc' = "idle"
    /\ outcome' = [kind |-> e, inst |-> NoInst]
    /\ UNCHANGED <<cache, ninst>>

\* Mutant of ShouldProbe: the probe does not depend on follow_redirect.
ShouldProbeAlways(fr) == TRUE

\* if follow_redirect: (line 464)
ShouldProbe(fr) == fr

\* Mutant of NormalizedUrl: the URL is matched as it was passed.
UrlAsPassed(url) == url

\* url = update_scheme("http://", url)  (line 453)
NormalizedUrl(url) == update_scheme("http", url)

\* A call of resolve_url(url, ...) made while the frames stk are running:
\* the lru_cache lookup, and on a miss the body down to the first probe.
Enter(stk, url, form, fr) ==
    LET key == Key(url, form, fr)
        nurl == NormalizedUrl(url)
        frame == [key |-> key, url |-> nurl, fr |-> fr]
        sorted == sort_reverse(available_plugins(plugins, nurl), nurl)
    IN  IF InCache(cache, key)
        THEN Return(stk, CacheVal(cache, key), Touch(cache, key))
             /\ ninst' = ninst
        ELSE IF sorted # << >>
        THEN Return(Append(stk, frame),
                    [cls |-> sorted[1].cls, url |-> nurl, id |-> ninst + 1],
                    cache)
             /\ ninst' = ninst + 1
        ELSE IF ShouldProbe(fr)
        THEN /\ stack' = Append(stk, frame)
             /\ pc' = "head"
             /\ outcome' = [kind |-> "running", inst |-> NoInst]
             /\ UNCHANGED <<cache, ninst>>
        ELSE Raise(Append(stk, frame), "NoPluginError")

\* A top-level call of resolve_url with the arguments c.  The call runs
\* to its result, or to its first probe.
ResolveCall(c) ==
    /\ pc = "idle"
    /\ ncalls < MaxCalls
    /\ ncalls' = ncalls + 1
    /\ call' = c
    /\ again' = (IF c = call THEN outcome.kind ELSE "no")
    /\ trace' = << >>
    /\ Enter(<< >>, c.url, c.form, c.fr)
    /\ UNCHANGED <<plugins, lvars, gvars, ovars, pvars>>

\* session.resolve_url(...) called by the user of the session.
resolve_url(c) == ResolveCall(c) /\ UNCHANGED svars

\* The registry of the second session: the builtin plugins its
\* constructor loaded.
PeerPlugins == LoadAll(<< >>, iter_modules("builtin"))

\* Mutant of PeerKey: a key that does not hold the session.
PeerKeyShared(url, form, fr) == Key(url, form, fr)

\* The key lru_cache makes of a call on the second session: self is the
\* first positional argument.
PeerKey(url, form, fr) == [Key(url, form, fr) EXCEPT !.self = "s2"]

\* resolve_url(...) called on the second session, for the calls that end
\* without a probe.  The wrapper of line 440 belongs to the function, so
\* the call looks up and stores in the cache the first session uses.
peer_resolve_url(c) ==
    LET key == PeerKey(c.url, c.form, c.fr)
        nurl == NormalizedUrl(c.url)
        sorted == sort_reverse(available_plugins(PeerPlugins, nurl), nurl)
        new == [cls |-> sorted[1].cls, url |-> nurl, id |-> ninst + 1]
    IN  /\ pc = "idle"
        /\ npeer < MaxCalls
        /\ sorted # << >> \/ ~ShouldProbe(c.fr)
        /\ npeer' = npeer + 1
        /\ peerCall' = c
        /\ IF InCache(cache, key)
           THEN /\ cache' = Touch(cache, key)
                /\ peerOutcome' = [kind |-> "instance", inst |-> CacheVal(cache, key)]
                /\ ninst' = ninst
           ELSE IF sorted # << >>
           THEN /\ cache' = CachePut(cache, key, new)
                /\ peerOutcome' = [kind |-> "instance", inst |-> new]
                /\ ninst' = ninst + 1
           ELSE /\ peerOutcome' = [kind |-> "NoPluginError", inst |-> NoInst]
                /\ UNCHANGED <<cache, ninst>>
        /\ UNCHANGED <<stack, pc, call, outcome, trace, again, ncalls,
                       peerOptions, peerSet, npsets,
                       plugins, lvars, gvars, ovars, svars>>

\* The params of streams: none, or a stream_types filter.
StreamParams == {"{}", "{stream_types}"}
NoStreams == [kind |-> "none", inst |-> NoInst, params |-> "{}"]
\* plugin.streams(**params) (line 502): one invocation, on the instance
\* that resolve_url returned.
Enumerate(inst, params) == [inst |-> inst, params |-> params]

\* The rest of streams (lines 501-502) once the resolve_url call of an
\* active streams call has come back: plugin.streams(**params) on the
\* instance, or the exception of resolve_url passed on to the caller.
StreamsAfter(active, params) ==
    IF ~active THEN UNCHANGED svars
    ELSE IF pc' # "idle"
    THEN /\ spc' = "resolving"
         /\ sparams' = params
         /\ enumerated' = << >>
         /\ sresult' = [NoStreams EXCEPT !.kind = "running"]
    ELSE /\ spc' = "idle"
         /\ sparams' = params
         /\ IF outcome'.kind = "instance"
            THEN /\ enumerated' = <<Enumerate(outcome'.inst, params)>>
                 /\ sresult' = [kind |-> "streams",
                                inst |-> Enumerate(outcome'.inst, params).inst,
                                params |-> params]
            ELSE /\ enumerated' = << >>
                 /\ sresult' = [NoStreams EXCEPT !.kind = outcome'.kind]

\* session.streams(url, **params): plugin = self.resolve_url(url)
\* (line 501), then return plugin.streams(**params) (line 502).
streams(url, params) ==
    /\ ResolveCall(Call(url, "dflt", TRUE))
    /\ StreamsAfter(TRUE, params)

\* if res.url != url: return self.resolve_url(res.url, follow_redirect=...)
Follow(f, u) ==
    IF u # f.url
    THEN IF Len(stack) >= RecursionLimit
         THEN Raise(stack, Propagate("RecursionError"))
         ELSE Enter(stack, u, "kw", f.fr)
    ELSE Raise(stack, "NoPluginError")

\* What a probe can answer: a transport failure, which HTTPSession raises
\* as PluginError, or a response with a status and a final URL.
TransportError == "PluginError"
HeadAnswers ==
    {[kind |-> "error", status |-> 0, url |-> Url("", "")]}
    \cup {[kind |-> "response", status |-> 501, url |-> Url("", "")]}
    \cup {[kind |-> "response", status |-> 200, url |-> u] : u \in NormUrls}
GetAnswers ==
    {[kind |-> "error", status |-> 0, url |-> Url("", "")]}
    \cup {[kind |-> "response", status |-> 200, url |-> u] : u \in NormUrls}

\* Mutant of GetFallback: GET follows every answered HEAD.
GetFallbackAlways(status) == TRUE

\* if res.status_code == 501: (line 470)
GetFallback(status) == status = 501

\* res = self.http.head(url, allow_redirects=True, acceptable_status=[501])
http_head(res) ==
    /\ pc = "head"
    /\ trace' = Append(trace, [method |-> "HEAD", url |-> Last(stack).url, res |-> res])
    /\ IF res.kind = "error" THEN Raise(stack, Propagate(TransportError))
       ELSE IF GetFallback(res.status)
       THEN pc' = "get" /\ UNCHANGED <<cache, stack, outcome, ninst>>
       ELSE Follow(Last(stack), res.url)
    /\ StreamsAfter(spc = "resolving", sparams)
    /\ UNCHANGED <<call, again, ncalls, plugins, lvars, gvars, ovars, pvars>>

\* res = self.http.get(url, stream=True)
http_get(res) ==
    /\ pc = "get"
    /\ trace' = Append(trace, [method |-> "GET", url |-> Last(stack).url, res |-> res])
    /\ IF res.kind = "error" THEN Raise(stack, Propagate(TransportError))
       ELSE Follow(Last(stack), res.url)
    /\ StreamsAfter(spc = "resolving", sparams)
    /\ UNCHANGED <<call, again, ncalls, plugins, lvars, gvars, ovars, pvars>>

\* resolve_url_no_redirect(url): return self.resolve_url(url,
\* follow_redirect=False)  (line 491)
resolve_url_no_redirect(url) == resolve_url(Call(url, "kw", FALSE))

\* ------------------------------------------------------------ load_plugins
\* The plugin class of a module that load_module has just loaded: bound
\* to nothing yet.
Loaded(m) ==
    [cls |-> m.cls, session |-> "none", module |-> "none",
     requester |-> "unbound", binds |-> 0]

\* Plugin.bind(session, module, user_input_requester): the class keeps
\* the session, the module name and the requester.
bind(plugin, session, module, requester) ==
    [plugin EXCEPT !.session = session, !.module = module,
                   !.requester = requester, !.binds = @ + 1]

\* user_input_requester = self.get_option("user-input-requester")
\* (line 519): the key is read from self.options.
ReadRequester ==
    IF "user-input-requester" \in DOMAIN options
    THEN options["user-input-requester"] ELSE "None"

\* Mutant of BindCall: the requester is read when the plugin is bound.
BindCallCurrent(plugin, name, user_input_requester) ==
    bind(plugin, "s1", name, ReadRequester)

\* plugin.bind(self, name, user_input_requester)  (line 533)
BindCall(plugin, name, user_input_requester) ==
    bind(plugin, "s1", name, user_input_requester)

\* The classes bound by a load of the modules ms, one after the other.
RECURSIVE BindAll(_, _, _)
BindAll(b, ms, requester) ==
    IF ms = << >> THEN b
    ELSE BindAll(IF LoadModuleValid(Head(ms))
                 THEN (Head(ms).name :> BindCall(Loaded(Head(ms)), Head(ms).name,
                                                 requester)) @@ b
                 ELSE b,
                 Tail(ms), requester)

load_plugins_begin(path) ==
    /\ lpc = "idle"
    /\ lpc' = "loop"
    /\ lpath' = path
    /\ lidx' = 1
    /\ success' = FALSE
    /\ lraised' = "none"
    /\ lbefore' = plugins
    /\ lregistered' = 0
    /\ lrequester' = ReadRequester
    /\ UNCHANGED <<bound, plugins, rvars, gvars, ovars, svars, pvars>>

load_plugins_module ==
    /\ lpc = "loop"
    /\ lidx <= Len(iter_modules(lpath))
    /\ LET m == iter_modules(lpath)[lidx]
       IN  IF LoadModuleRaises(m)
           THEN /\ lpc' = "idle"
                /\ lraised' = RaisedBy(m)
                /\ lbefore' = << >>
                /\ UNCHANGED <<plugins, success, lidx, lpath, lregistered,
                               lrequester, bound>>
           ELSE /\ plugins' = LoadModule(plugins, m)
                /\ bound' = BindAll(bound, <<m>>, lrequester)
                /\ success' = SuccessAfter(success, m)
                /\ lregistered' = lregistered + (IF LoadModuleValid(m) THEN 1 ELSE 0)
                /\ lidx' = lidx + 1
                /\ UNCHANGED <<lpc, lpath, lraised, lbefore, lrequester>>
    /\ UNCHANGED <<rvars, gvars, ovars, svars, pvars>>

load_plugins_return ==
    /\ lpc = "loop"
    /\ lidx > Len(iter_modules(lpath))
    /\ lpc' = "idle"
    /\ lbefore' = << >>
    /\ UNCHANGED <<plugins, lpath, lidx, success, lraised, lregistered,
                   lrequester, bound, rvars, gvars, ovars, svars, pvars>>

\* ------------------------------------------------------------- get_plugins
\* return self.plugins: the caller gets the registry object itself.
get_plugins ==
    /\ returned' = "self.plugins"
    /\ heldAt' = plugins
    /\ UNCHANGED <<plugins, rvars, lvars, ovars, svars, pvars>>

\* What the caller of get_plugins finds in the collection it was given.
Deref(ref) == IF ref = "self.plugins" THEN plugins ELSE << >>

\* ------------------------------------------------- set_option / get_option
\* Option values: Python's True, False and None.
Values == {"True", "False", "None"}
\* Proxy values: a proxy written without a scheme and one written with it.
ProxyValues == {"a.proxy", "https://b.proxy"}
\* if value: (line 311), if not value: (lines 299, 307).  False, None and
\* the empty string are falsy.
Truthy(v) == v \notin {"False", "None", ""}
OptionKeys ==
    {"ipv4", "ipv6", "locale", "custom", "http-proxy", "https-proxy",
     "http-trust-env", "http-disable-dh"}
\* The values set_option is called with for each key.
ValuesOf(key) ==
    CASE key \in {"http-proxy", "https-proxy"} -> ProxyValues
      [] key = "interface" -> {"None", "", "10.0.0.1"}
      [] key = "http-cookies"
            -> {"a=1;b=2", "a=1;b", "b=3", "dict(b=4)", "dict(a=5,b=6)"}
      [] key = "http-headers" -> {"a=1;b=2", "b", "dict(b=4)", "dict(a=5,b=6)"}
      [] key = "http-query-params"
            -> {"a=1&b=2", "a=1&b", "dict(b=4)", "dict(a=5,b=6)"}
      [] key = "http-report-uri"
            -> {"http://r.tv", "aHR0cDovL3IudHY=", "abc", "None"}
      [] key = "error-http-status-codes" -> {"600T700", "600T", "T700", "404"}
      [] key = "user-input-requester" -> {"None", "r1", "r2"}
      [] OTHER -> Values

\* The URL that a proxy value spells.
ParseUrl(v) ==
    CASE v = "a.proxy" -> Url("", "a.proxy")
      [] v = "https://b.proxy" -> Url("https", "b.proxy")

\* The characters of a value that is a string.
Text(v) ==
    CASE v = "a=1;b=2" -> <<"a", "=", "1", ";", "b", "=", "2">>
      [] v = "a=1;b" -> <<"a", "=", "1", ";", "b">>
      [] v = "b=3" -> <<"b", "=", "3">>
      [] v = "b" -> <<"b">>
      [] v = "a=1&b=2" -> <<"a", "=", "1", "&", "b", "=", "2">>
      [] v = "a=1&b" -> <<"a", "=", "1", "&", "b">>
      [] v = "http://r.tv" -> <<"h", "t", "t", "p", ":", "/", "/", "r", ".", "t", "v">>
      [] v = "aHR0cDovL3IudHY=" -> <<"a", "H", "R", "0", "c", "D", "o", "v", "L", "3", "I", "u", "d", "H", "Y", "=">>
      [] v = "abc" -> <<"a", "b", "c">>
      [] OTHER -> << >>

\* isinstance(value, dict) (lines 326, 331, 336) and the mapping it is.
IsDict(v) == v \in {"dict(b=4)", "dict(a=5,b=6)"}
MappingOf(v) ==
    CASE v = "dict(b=4)" -> (<<"b">> :> <<"4">>)
      [] v = "dict(a=5,b=6)" -> (<<"a">> :> <<"5">>) @@ (<<"b">> :> <<"6">>)
      [] OTHER -> << >>

\* The defaults __init__ gives self.options (lines 38-86).  Numbers other
\* than ringbuffer-size, and None, False and [], are written as their
\* Python text.
is_win32 == FALSE
DefaultOptions ==
       ("interface" :> "None")
    @@ ("ipv4" :> "False")
    @@ ("ipv6" :> "False")
    @@ ("dash-live-edge" :> "3")
    @@ ("hds-live-edge" :> "10.0")
    @@ ("hds-segment-attempts" :> "3")
    @@ ("hds-segment-threads" :> "1")
    @@ ("hds-segment-timeout" :> "10.0")
    @@ ("hds-timeout" :> "60.0")
    @@ ("hls-live-edge" :> "3")
    @@ ("ts-url-add-m3u-url-params" :> "False")
    @@ ("hls-segment-host" :> "None")
    @@ ("hls-segment-attempts" :> "3")
    @@ ("hls-segment-ignore-names" :> "[]")
    @@ ("hls-segment-threads" :> "1")
    @@ ("hls-segment-timeout" :> "10.0")
    @@ ("hls-segment-stream-data" :> "False")
    @@ ("hls-timeout" :> "60.0")
    @@ ("hls-playlist-reload-attempts" :> "3")
    @@ ("hls-playlist-reload-time" :> "default")
    @@ ("hls-start-offset" :> "0")
    @@ ("hls-duration" :> "None")
    @@ ("http-stream-timeout" :> "60.0")
    @@ ("hls-token-period" :> "60.0")
    @@ ("ringbuffer-size" :> (1024 * 1024 * 16))
    @@ ("rtmp-timeout" :> "60.0")
    @@ ("rtmp-rtmpdump" :> (IF is_win32 THEN "rtmpdump.exe" ELSE "rtmpdump"))
    @@ ("rtmp-proxy" :> "None")
    @@ ("stream-segment-attempts" :> "3")
    @@ ("stream-segment-threads" :> "1")
    @@ ("stream-segment-timeout" :> "10.0")
    @@ ("stream-timeout" :> "60.0")
    @@ ("drm-decrypt-key" :> "None")
    @@ ("drm-temp-dir" :> "None")
    @@ ("stream-max-playback-duration" :> "0")
    @@ ("subprocess-errorlog" :> "False")
    @@ ("subprocess-errorlog-path" :> "None")
    @@ ("ffmpeg-ffmpeg" :> "None")
    @@ ("ffmpeg-fout" :> "None")
    @@ ("ffmpeg-video-transcode" :> "None")
    @@ ("ffmpeg-audio-transcode" :> "None")
    @@ ("ffmpeg-copyts" :> "False")
    @@ ("ffmpeg-start-at-zero" :> "False")
    @@ ("mux-subtitles" :> "False")
    @@ ("locale" :> "None")
    @@ ("user-input-requester" :> "None")

\* self.http.proxies holds no entry for a protocol.
NoProxy == Url("", "")
\* self.http = api.HTTPSession() (line 36): no proxies, trust_env True.
\* The adapters have no source_address in their connection_pool_kw.
DefaultHttp ==
    [proxies |-> [http |-> NoProxy, https |-> NoProxy], trust_env |-> "True",
     source |-> [a \in {"https://", "http://"} |-> "unbound"],
     cookies |-> << >>,
     headers |-> (<<"A", "c", "c", "e", "p", "t">> :> <<"*", "/", "*">>),
     params |-> << >>,
     report_uri |-> [kind |-> "None", text |-> << >>],
     error_http_status_codes |->
        [kind |-> "codes", text |-> "", lo |-> 403, hi |-> 403]]

\* for scheme, adapter in self.http.adapters.items(): the adapters the loop
\* does not skip (line 297-298), in the order requests mounts them.
AdapterOrder == <<"https://", "http://">>

\* Mutant of BindAdapters: a source address is bound on the first adapter
\* only.
RECURSIVE BindAdaptersFirst(_, _, _)
BindAdaptersFirst(source, adapters, value) ==
    IF adapters = << >> THEN [raised |-> "none", source |-> source]
    ELSE IF Truthy(value)
    THEN [raised |-> "none", source |-> [source EXCEPT ![Head(adapters)] = value]]
    ELSE IF source[Head(adapters)] = "unbound"
    THEN [raised |-> "KeyError", source |-> source]
    ELSE BindAdaptersFirst([source EXCEPT ![Head(adapters)] = "unbound"],
                           Tail(adapters), value)

\* The loop of the interface branch (lines 297-306) over the adapters that
\* are left: connection_pool_kw.pop("source_address") raises KeyError when
\* the adapter has no source address, update(source_address=(value, 0))
\* binds it.
RECURSIVE BindAdapters(_, _, _)
BindAdapters(source, adapters, value) ==
    IF adapters = << >> THEN [raised |-> "none", source |-> source]
    ELSE IF Truthy(value)
    THEN BindAdapters([source EXCEPT ![Head(adapters)] = value],
                      Tail(adapters), value)
    ELSE IF source[Head(adapters)] = "unbound"
    THEN [raised |-> "KeyError", source |-> source]
    ELSE BindAdapters([source EXCEPT ![Head(adapters)] = "unbound"],
                      Tail(adapters), value)

\* The options argument of __init__: None, or a mapping of some keys.
NoOptions == [k \in {} |-> "None"]
InitialOptions ==
    { NoOptions,
      [ipv4 |-> "True"], [ipv6 |-> "True"],
      [ipv4 |-> "True", ipv6 |-> "True"],
      [ipv4 |-> "False", ipv6 |-> "True"] }

\* Options given to the constructor under keys that set_option routes
\* to the transport or to the address family.
ConstructorOptions ==
    { ("http-proxy" :> "a.proxy"),
      ("https-proxy" :> "https://b.proxy") @@ ("http-trust-env" :> "False"),
      ("ipv4" :> "True") @@ ("ipv6" :> "True"),
      ("http-proxy" :> "a.proxy") @@ ("ipv4" :> "True") @@ ("ipv6" :> "True"),
      ("ipv6" :> "True") @@ ("locale" :> "en_US") }

\* Mutant of OptionsUpdate: ipv4 and ipv6 given both True are stored as
\* set_option would leave them, the first one cleared by the second.
OptionsUpdateExclusive(store, given) ==
    [k \in DOMAIN store \cup DOMAIN given |->
        IF k = "ipv4" /\ {"ipv4", "ipv6"} \subseteq DOMAIN given
            /\ given["ipv4"] = "True" /\ given["ipv6"] = "True"
        THEN "False"
        ELSE IF k \in DOMAIN given THEN given[k] ELSE store[k]]

\* if options: self.options.update(options)  (lines 91-92): every given
\* key is stored, over the default of the same key.
OptionsUpdate(store, given) ==
    [k \in DOMAIN store \cup DOMAIN given |->
        IF k \in DOMAIN given THEN given[k] ELSE store[k]]

\* The else branch with the falsy values turned into None, as the branch
\* of interface does.
StoreOrNone(store, key, value) ==
    [k \in DOMAIN store \cup {key} |->
        IF k = key THEN (IF Truthy(value) THEN value ELSE "None") ELSE store[k]]

\* The other address family set to None.
ExclusiveNone(store, key) ==
    [store EXCEPT ![IF key = "ipv4" THEN "ipv6" ELSE "ipv4"] = "None"]
\* self.options.set("ipv6" if key == "ipv4" else "ipv4", False)  (line 312)
Exclusive(store, key) ==
    [store EXCEPT ![IF key = "ipv4" THEN "ipv6" ELSE "ipv4"] = "False"]

\* self.options.set(key, value)  (lines 310, 372)
StoreOption(store, key, value) ==
    [k \in DOMAIN store \cup {key} |-> IF k = key THEN value ELSE store[k]]

\* The HTTPS proxy is seeded whatever self.http.proxies holds.
SeedAlways(proxies) == TRUE

\* if "https" not in self.http.proxies:  (line 320)
SeedHttps(proxies) == proxies.https = NoProxy

\* Mutant of SetHttpProxy: the HTTPS proxy is never seeded.
SetHttpProxyOnly(h, value) ==
    [h EXCEPT !.proxies.http = update_scheme("http", ParseUrl(value))]

\* The branch of http-proxy (lines 318-321).
SetHttpProxy(h, value) ==
    [h EXCEPT !.proxies =
        [http |-> update_scheme("http", ParseUrl(value)),
         https |-> IF SeedHttps(h.proxies)
                   THEN update_scheme("http", ParseUrl(value))
                   ELSE h.proxies.https]]

\* The branch of https-proxy (lines 323-324).
SetHttpsProxy(h, value) ==
    [h EXCEPT !.proxies.https = update_scheme("https", ParseUrl(value))]

\* Mutant of DictUpdate: an entry that exists keeps its value.
DictKeepOld(jar, other) ==
    [k \in DOMAIN jar \cup DOMAIN other |->
        IF k \in DOMAIN jar THEN jar[k] ELSE other[k]]

\* dict.update(other): the entries of other are added, over the entries
\* of the same key.
DictUpdate(jar, other) ==
    [k \in DOMAIN jar \cup DOMAIN other |->
        IF k \in DOMAIN other THEN other[k] ELSE jar[k]]

\* The position of the first c in the text t, 0 when there is none.
IndexOf(t, c) ==
    IF \E i \in 1..Len(t) : t[i] = c
    THEN CHOOSE i \in 1..Len(t) : t[i] = c /\ \A j \in 1..(i - 1) : t[j] # c
    ELSE 0

\* str.split(sep)
RECURSIVE Split(_, _)
Split(t, sep) ==
    IF IndexOf(t, sep) = 0 THEN <<t>>
    ELSE <<SubSeq(t, 1, IndexOf(t, sep) - 1)>>
            \o Split(SubSeq(t, IndexOf(t, sep) + 1, Len(t)), sep)

\* HTTPSession.parse_cookies / parse_headers / parse_query_params: every
\* segment is key=value; a segment without "=" is a value of the wrong
\* shape (InvalidOption), and then nothing is added.
RECURSIVE AddSegments(_, _)
AddSegments(jar, segments) ==
    IF segments = << >> THEN jar
    ELSE LET seg == Head(segments)
             eq == IndexOf(seg, "=")
         IN  AddSegments(DictUpdate(jar, SubSeq(seg, 1, eq - 1)
                                            :> SubSeq(seg, eq + 1, Len(seg))),
                         Tail(segments))
parse_keyvalues(jar, text, sep) ==
    IF \E i \in 1..Len(Split(text, sep)) : IndexOf(Split(text, sep)[i], "=") = 0
    THEN [raised |-> "InvalidOption", jar |-> jar]
    ELSE [raised |-> "none", jar |-> AddSegments(jar, Split(text, sep))]

\* The keys whose value is a mapping or a delimited string of key=value.
KeyValueKeys == {"http-cookies", "http-headers", "http-query-params"}
\* Every branch writing to self.http.cookies.
JarFieldCookies(key) == "cookies"
\* The attribute of self.http each branch writes (lines 327, 332, 337).
JarField(key) ==
    CASE key = "http-cookies" -> "cookies"
      [] key = "http-headers" -> "headers"
      [] key = "http-query-params" -> "params"
\* The delimiter of the string form (docstring, lines 169-180).
Separator(key) == IF key = "http-query-params" THEN "&" ELSE ";"

\* The branch with the parser's error caught and dropped.
KeyValueBranchIgnore(jar, key, value) ==
    IF IsDict(value)
    THEN [raised |-> "none", jar |-> DictUpdate(jar, MappingOf(value))]
    ELSE [raised |-> "none",
          jar |-> parse_keyvalues(jar, Text(value), Separator(key)).jar]

\* The branches of http-cookies, http-headers and http-query-params (lines
\* 325-339): a dict is merged, anything else goes to the parser, whose
\* exception is not caught.
KeyValueBranch(jar, key, value) ==
    IF IsDict(value)
    THEN [raised |-> "none", jar |-> DictUpdate(jar, MappingOf(value))]
    ELSE parse_keyvalues(jar, Text(value), Separator(key))

\* The alphabet of URL-safe base64, in the order of the values 0..63.
B64Alphabet ==
    <<
      "A", "B", "C", "D", "E", "F", "G", "H", "I", "J", "K", "L", "M", "N",
      "O", "P", "Q", "R", "S", "T", "U", "V", "W", "X", "Y", "Z", "a", "b",
      "c", "d", "e", "f", "g", "h", "i", "j", "k", "l", "m", "n", "o", "p",
      "q", "r", "s", "t", "u", "v", "w", "x", "y", "z", "0", "1", "2", "3",
      "4", "5", "6", "7", "8", "9", "-", "_" >>
B64Value(c) == (CHOOSE i \in 1..Len(B64Alphabet) : B64Alphabet[i] = c) - 1
B64Data(c) == \E i \in 1..Len(B64Alphabet) : B64Alphabet[i] = c
B64Pad(c) == c = "="
\* The characters of the codes 32..126; "grave" stands for the grave accent.
Printable ==
    <<
      " ", "!", "\"", "#", "$", "%", "&", "'", "(", ")", "*", "+", ",",
      "-", ".", "/", "0", "1", "2", "3", "4", "5", "6", "7", "8", "9", ":",
      ";", "<", "=", ">", "?", "@", "A", "B", "C", "D", "E", "F", "G", "H",
      "I", "J", "K", "L", "M", "N", "O", "P", "Q", "R", "S", "T", "U", "V",
      "W", "X", "Y", "Z", "[", "\\", "]", "^", "_", "grave", "a", "b", "c",
      "d", "e", "f", "g", "h", "i", "j", "k", "l", "m", "n", "o", "p", "q",
      "r", "s", "t", "u", "v", "w", "x", "y", "z", "{", "|", "}", "~" >>

\* The bytes that the base64 digits d spell: three for every four digits,
\* two for three digits left over and one for two.
RECURSIVE B64Bytes(_)
B64Bytes(d) ==
    IF Len(d) >= 4
    THEN LET n == B64Value(d[1]) * 262144 + B64Value(d[2]) * 4096
                    + B64Value(d[3]) * 64 + B64Value(d[4])
         IN  <<n \div 65536, (n \div 256) % 256, n % 256>>
                \o B64Bytes(SubSeq(d, 5, Len(d)))
    ELSE IF Len(d) = 3
    THEN LET n == B64Value(d[1]) * 4096 + B64Value(d[2]) * 64 + B64Value(d[3])
         IN  <<n \div 1024, (n \div 4) % 256>>
    ELSE IF Len(d) = 2
    THEN <<(B64Value(d[1]) * 64 + B64Value(d[2])) \div 16>>
    ELSE << >>

\* base64.urlsafe_b64decode(value).decode('utf-8') (line 360): characters
\* outside the alphabet are dropped, digits left over need their padding
\* (binascii.Error otherwise), and the bytes must be UTF-8 text
\* (UnicodeDecodeError otherwise; in the model every byte above 127 is
\* undecodable).
urlsafe_b64decode(text) ==
    LET d == SelectSeq(text, B64Data)
        pad == Len(SelectSeq(text, B64Pad))
        bytes == B64Bytes(d)
    IN  IF \/ Len(d) % 4 = 1
           \/ Len(d) % 4 = 2 /\ pad < 2
           \/ Len(d) % 4 = 3 /\ pad < 1
        THEN [raised |-> "binascii.Error", text |-> << >>]
        ELSE IF \E i \in 1..Len(bytes) : bytes[i] \notin 32..126
        THEN [raised |-> "UnicodeDecodeError", text |-> << >>]
        ELSE [raised |-> "none",
              text |-> [i \in 1..Len(bytes) |-> Printable[bytes[i] - 31]]]

\* isinstance(value, str) (line 359)
IsStr(v) == v # "None"
\* Every string taken for a literal URI.
LiteralAlways(text) == TRUE
\* value.startswith('http') (line 359)
Literal(text) == Len(text) >= 4 /\ SubSeq(text, 1, 4) = <<"h", "t", "t", "p">>

\* The branch of http-report-uri (lines 358-361): what is stored, and the
\* exception of the decoding.
ReportUriBranch(value) ==
    IF IsStr(value) /\ ~Literal(Text(value))
    THEN [raised |-> urlsafe_b64decode(Text(value)).raised,
          stored |-> [kind |-> "str", text |-> urlsafe_b64decode(Text(value)).text]]
    ELSE [raised |-> "none",
          stored |-> IF IsStr(value) THEN [kind |-> "str", text |-> Text(value)]
                     ELSE [kind |-> "None", text |-> << >>]]

\* The status codes that an entry spells: A, ATB (A to B), AT (A and
\* above), TB (B and below).
ParsedCodes(v) ==
    CASE v = "600T700" -> [kind |-> "codes", text |-> "", lo |-> 600, hi |-> 700]
      [] v = "600T" -> [kind |-> "codes", text |-> "", lo |-> 600, hi |-> 999]
      [] v = "T700" -> [kind |-> "codes", text |-> "", lo |-> 0, hi |-> 700]
      [] v = "404" -> [kind |-> "codes", text |-> "", lo |-> 404, hi |-> 404]

\* The entries of the value parsed on assignment.
StatusCodesParsed(value) == ParsedCodes(value)
\* self.http.error_http_status_codes = value (line 370): the value as it
\* was given.
StatusCodesBranch(value) == [kind |-> "given", text |-> value, lo |-> 0, hi |-> 0]

\* The branch of ipv4 and ipv6 (lines 309-316), on the options of the
\* session: the key is stored, and a truthy value sets the other family
\* to False.
FamilyStore(store, key, value) ==
    IF Truthy(value) THEN Exclusive(StoreOption(store, key, value), key)
    ELSE StoreOption(store, key, value)

\* Mutant of FamilyOverride: a falsy value leaves the override in force.
FamilyOverrideKept(g, key, value) ==
    IF Truthy(value) THEN (IF key = "ipv4" THEN "AF_INET" ELSE "AF_INET6")
    ELSE g

\* The branch of ipv4 and ipv6, on urllib3_connection.allowed_gai_family
\* (lines 313-316): the module attribute is assigned, whatever it was.
FamilyOverride(g, key, value) ==
    IF Truthy(value) THEN (IF key = "ipv4" THEN "AF_INET" ELSE "AF_INET6")
    ELSE "default"

\* The exception that leaves set_option(key, value) in the current state.
SetOptionRaises(key, value) ==
    CASE key = "interface" -> BindAdapters(http.source, AdapterOrder, value).raised
      [] key \in KeyValueKeys
            -> KeyValueBranch(http[JarField(key)], key, value).raised
      [] key = "http-report-uri" -> ReportUriBranch(value).raised
      [] OTHER -> "none"

\* set_option(key, value): the branches for interface (lines 296-307),
\* ipv4 / ipv6 (lines 309-316), http-cookies, http-headers and
\* http-query-params (lines 325-339), http-report-uri (lines 358-361),
\* error-http-status-codes (lines 369-370),
\* http-proxy and https-proxy (lines 318-324), http-trust-env (lines
\* 340-341), http-disable-dh (lines 344-352) and the final else branch
\* (line 372).
set_option(key, value) ==
    /\ nsets < MaxSets
    /\ nsets' = nsets + 1
    /\ lastset' = [key |-> key, value |-> value]
    /\ oraised' = SetOptionRaises(key, value)
    /\ IF key = "interface"
       THEN /\ http' = [http EXCEPT !.source =
                        BindAdapters(http.source, AdapterOrder, value).source]
            /\ options' = IF SetOptionRaises(key, value) # "none" THEN options
                          ELSE StoreOption(options, key,
                                           IF Truthy(value) THEN value ELSE "None")
            /\ UNCHANGED <<gai, ciphers>>
       ELSE IF key = "ipv4" \/ key = "ipv6"
       THEN /\ options' = FamilyStore(options, key, value)
            /\ gai' = FamilyOverride(gai, key, value)
            /\ UNCHANGED <<http, ciphers>>
       ELSE IF key = "http-proxy"
       THEN /\ http' = SetHttpProxy(http, value)
            /\ UNCHANGED <<options, gai, ciphers>>
       ELSE IF key = "https-proxy"
       THEN /\ http' = SetHttpsProxy(http, value)
            /\ UNCHANGED <<options, gai, ciphers>>
       ELSE IF key \in KeyValueKeys
       THEN /\ http' = [http EXCEPT ![JarField(key)] =
                        KeyValueBranch(http[JarField(key)], key, value).jar]
            /\ UNCHANGED <<options, gai, ciphers>>
       ELSE IF key = "http-trust-env"
       THEN /\ http' = [http EXCEPT !.trust_env = value]
            /\ UNCHANGED <<options, gai, ciphers>>
       ELSE IF key = "http-report-uri"
       THEN /\ http' = IF ReportUriBranch(value).raised # "none" THEN http
                       ELSE [http EXCEPT !.report_uri = ReportUriBranch(value).stored]
            /\ UNCHANGED <<options, gai, ciphers>>
       ELSE IF key = "error-http-status-codes"
       THEN /\ http' = [http EXCEPT
                            !.error_http_status_codes = StatusCodesBranch(value)]
            /\ UNCHANGED <<options, gai, ciphers>>
       ELSE IF key = "http-disable-dh"
       THEN /\ ciphers' = (IF Truthy(value) THEN ciphers + 1 ELSE ciphers)
            /\ UNCHANGED <<options, gai, http>>
       ELSE /\ options' = StoreOption(options, key, value)
            /\ UNCHANGED <<gai, http, ciphers>>
    /\ UNCHANGED <<initopts, plugins, rvars, lvars, gvars, svars, pvars>>

\* set_option(key, value) on the second session, for the keys ipv4 and
\* ipv6: its own options, and the allowed_gai_family of the process.
peer_set_option(key, value) ==
    /\ key \in {"ipv4", "ipv6"}
    /\ npsets < MaxSets
    /\ npsets' = npsets + 1
    /\ peerSet' = [key |-> key, value |-> value]
    /\ peerOptions' = FamilyStore(peerOptions, key, value)
    /\ gai' = FamilyOverride(gai, key, value)
    /\ UNCHANGED <<options, initopts, nsets, lastset, http, ciphers, oraised,
                   peerCall, peerOutcome, npeer,
                   plugins, rvars, lvars, gvars, svars>>

\* get_option(key): the keys it reads from self.http (lines 387-394), and
\* self.options.get(key) for every other key (line 412), None when the
\* store has no such key.
get_option(key) ==
    CASE key = "http-proxy" -> http.proxies.http
      [] key = "https-proxy" -> http.proxies.https
      [] key = "http-cookies" -> http.cookies
      [] key = "http-headers" -> http.headers
      [] key = "http-query-params" -> http.params
      [] key = "http-trust-env" -> http.trust_env
      [] key = "http-report-uri" -> http.report_uri
      [] key = "error-http-status-codes" -> http.error_http_status_codes
      [] OTHER -> IF key \in DOMAIN options THEN options[key] ELSE "None"

\* ----------------------------------------------------------- specification
InitSession ==
    /\ plugins = LoadAll(<< >>, iter_modules("builtin"))
    /\ cache = << >>
    /\ stack = << >>
    /\ pc = "idle"
    /\ call = NoCall
    /\ outcome = [kind |-> "none", inst |-> NoInst]
    /\ trace = << >>
    /\ again = "no"
    /\ ncalls = 0
    /\ ninst = 0
    /\ lpc = "idle"
    /\ lpath = "builtin"
    /\ lidx = Len(iter_modules("builtin")) + 1
    /\ success = TRUE
    /\ lraised = "none"
    /\ lbefore = << >>
    /\ lregistered = Len(iter_modules("builtin"))
    /\ returned = "none"
    /\ heldAt = << >>
    /\ gai = "default"
    /\ nsets = 0
    /\ lastset = [key |-> "none", value |-> "None"]
    /\ http = DefaultHttp
    /\ ciphers = 0
    /\ oraised = "none"
    /\ spc = "idle"
    /\ sparams = "{}"
    /\ enumerated = << >>
    /\ sresult = NoStreams
    /\ peerOptions = DefaultOptions
    /\ peerSet = [key |-> "none", value |-> "None"]
    /\ npsets = 0
    /\ peerCall = NoCall
    /\ peerOutcome = [kind |-> "none", inst |-> NoInst]
    /\ npeer = 0

\* self.load_builtin_plugins() (line 94), after the options are in
\* place: the built-in plugins are bound to the requester of the options.
InitBuiltin ==
    /\ lrequester = ReadRequester
    /\ bound = BindAll(<< >>, iter_modules("builtin"), lrequester)

\* Streamlink(): a session constructed without options.
Init ==
    /\ InitSession
    /\ initopts = NoOptions
    /\ options = DefaultOptions
    /\ InitBuiltin

\* The resolver and its cache, with load_plugins running beside it.
Next ==
    \/ \E c \in Calls : resolve_url(c)
    \/ \E res \in HeadAnswers : http_head(res)
    \/ \E res \in GetAnswers : http_get(res)
    \/ \E path \in Paths : load_plugins_begin(path)
    \/ load_plugins_module
    \/ load_plugins_return

Spec == Init /\ [][Next]_vars

\* The registry and its readers: load_plugins in one thread, get_plugins
\* and registry lookups (resolve_url_no_redirect) in another.
NextRegistry ==
    \/ \E path \in Paths : load_plugins_begin(path)
    \/ load_plugins_module
    \/ load_plugins_return
    \/ get_plugins
    \/ \E u \in {c.url : c \in Calls} : resolve_url_no_redirect(u)

SpecRegistry == Init /\ [][NextRegistry]_vars

\* load_plugins called again and again, over every directory.
NextLoad ==
    \/ \E path \in LoadPaths : load_plugins_begin(path)
    \/ load_plugins_module
    \/ load_plugins_return

SpecLoad == Init /\ [][NextLoad]_vars

\* Streamlink(options): a session constructed with any of InitialOptions.
InitOptions ==
    /\ InitSession
    /\ initopts \in InitialOptions
    /\ options = OptionsUpdate(DefaultOptions, initopts)
    /\ InitBuiltin

\* The option router.
NextOptions == \E k \in OptionKeys : \E v \in ValuesOf(k) : set_option(k, v)

SpecOptions == InitOptions /\ [][NextOptions]_vars

\* Streamlink(options) with options under specialized keys, and the option
\* router after it.
InitConstructed ==
    /\ InitSession
    /\ initopts \in ConstructorOptions
    /\ options = OptionsUpdate(DefaultOptions, initopts)
    /\ InitBuiltin

ConstructedKeys == {"ipv4", "ipv6", "http-proxy", "https-proxy", "locale"}
NextConstructed ==
    \E k \in ConstructedKeys : \E v \in ValuesOf(k) : set_option(k, v)

SpecConstructed == InitConstructed /\ [][NextConstructed]_vars

\* The options that set_option routes to the transport.
TransportKeys ==
    {"interface", "http-report-uri", "error-http-status-codes"}
        \cup KeyValueKeys
NextTransport ==
    \E k \in TransportKeys : \E v \in ValuesOf(k) : set_option(k, v)

SpecTransport == Init /\ [][NextTransport]_vars

\* streams called again and again, with the probes of its resolutions.
NextStreams ==
    \/ \E c \in Calls : \E params \in StreamParams : streams(c.url, params)
    \/ \E res \in HeadAnswers : http_head(res)
    \/ \E res \in GetAnswers : http_get(res)

SpecStreams == Init /\ [][NextStreams]_vars

\* Resolutions without redirects, with load_plugins and set_option
\* changing the registry and the options between them.
DirectCalls == {c \in Calls : ~c.fr}
NextCached ==
    \/ \E c \in DirectCalls : resolve_url(c)
    \/ load_plugins_begin("extra")
    \/ load_plugins_module
    \/ load_plugins_return
    \/ \E v \in ValuesOf("locale") : set_option("locale", v)

SpecCached == Init /\ [][NextCached]_vars

\* The ways of calling resolve_url for a URL that a plugin matches:
\* resolve_url(url), resolve_url(url, f), resolve_url(url, follow_redirect=f).
FormCalls ==
    {Call(Url("http", r), form, fr) :
        r \in {"a.tv", "b.tv"}, form \in {"pos", "kw"}, fr \in BOOLEAN}
    \cup {Call(Url("http", r), "dflt", TRUE) : r \in {"a.tv", "b.tv"}}
\* The entry points that end in resolve_url, called in every form.
NextForms ==
    \/ \E c \in FormCalls : resolve_url(c)
    \/ \E c \in FormCalls : resolve_url_no_redirect(c.url)
    \/ \E c \in FormCalls : \E params \in StreamParams : streams(c.url, params)

SpecForms == Init /\ [][NextForms]_vars

\* load_plugins in one thread, with set_option("user-input-requester", r)
\* before, during and after its calls.
NextBind ==
    \/ \E path \in {"extra", "more"} : load_plugins_begin(path)
    \/ load_plugins_module
    \/ load_plugins_return
    \/ \E v \in ValuesOf("user-input-requester") :
            set_option("user-input-requester", v)

SpecBind == Init /\ [][NextBind]_vars

\* load_plugins over a directory that overrides beta and then alpha, with
\* resolutions before, during and after it.
NextOverride ==
    \/ load_plugins_begin("more")
    \/ load_plugins_module
    \/ load_plugins_return
    \/ \E c \in FormCalls : resolve_url(c)

SpecOverride == Init /\ [][NextOverride]_vars

\* resolve_url with its probes, on a registry that does not change.
NextRedirect ==
    \/ \E c \in Calls : resolve_url(c)
    \/ \E res \in HeadAnswers : http_head(res)
    \/ \E res \in GetAnswers : http_get(res)

SpecRedirect == Init /\ [][NextRedirect]_vars

\* Two sessions of one process setting ipv4 and ipv6.
NextFamilies ==
    \/ \E k \in {"ipv4", "ipv6"} : \E v \in ValuesOf(k) : set_option(k, v)
    \/ \E k \in {"ipv4", "ipv6"} : \E v \in ValuesOf(k) : peer_set_option(k, v)

SpecFamilies == Init /\ [][NextFamilies]_vars

\* Two sessions of one process resolving URLs without a probe.
SharedCalls == FormCalls \cup DirectCalls
NextShared ==
    \/ \E c \in SharedCalls : resolve_url(c)
    \/ \E c \in SharedCalls : peer_resolve_url(c)

SpecShared == Init /\ [][NextShared]_vars

\* ------------------------------------------------------------------ claims
\* The URL a call matches on, and the registry entries that match it.
NUrl(c) == update_scheme("http", c.url)
Matching(reg, url) == {i \in 1..Len(reg) : can_handle_url(reg[i].cls, url)}
\* The matching entry of maximum priority that comes first in the registry.
BestIndex(reg, url) ==
    CHOOSE i \in Matching(reg, url) :
        \A j \in Matching(reg, url) :
            \/ priority(reg[j].cls, url) < priority(reg[i].cls, url)
            \/ priority(reg[j].cls, url) = priority(reg[i].cls, url) /\ i <= j
Best(reg, url) == reg[BestIndex(reg, url)].cls
\* A step that is a top-level resolve_url call.
CallStep == pc = "idle" /\ ncalls' = ncalls + 1
CallKey(c) == Key(c.url, c.form, c.fr)

\* C1 (as stated): whenever resolve_url is called (no load_plugins running)
\* with a URL that some registered plugin can handle, it returns an instance
\* of the matching plugin of maximum priority, the first such in registry
\* order.
C1_AsStated ==
    [][(CallStep /\ lpc = "idle" /\ Matching(plugins, NUrl(call')) # {})
        => /\ outcome'.kind = "instance"
           /\ outcome'.inst.cls = Best(plugins, NUrl(call'))]_vars

\* C1 (amended): the same, for a call that is not served from the cache;
\* the instance is constructed with the normalized URL.
C1_BestPlugin ==
    [][(CallStep /\ Matching(plugins, NUrl(call')) # {}
            /\ ~InCache(cache, CallKey(call')))
        => /\ outcome'.kind = "instance"
           /\ outcome'.inst.cls = Best(plugins, NUrl(call'))
           /\ outcome'.inst.url = NUrl(call')]_vars

\* C1 witness: a call chose gamma's class G1 (priority 30) for a.tv over the
\* classes of alpha and beta (priority 20) that come before it.
C1_Witness ==
    /\ pc = "idle"
    /\ outcome.kind = "instance"
    /\ outcome.inst.cls = "G1"
    /\ outcome.inst.id = ninst
    /\ NUrl(call) = Url("http", "a.tv")
    /\ Cardinality(Matching(plugins, NUrl(call))) >= 2
    /\ again = "no"

C3_SecondCallCached ==
    [][/\ (CallStep /\ call'.fr /\ Matching(plugins, NUrl(call')) # {})
            => (pc' = "idle" /\ trace' = << >> /\ outcome'.kind = "instance")
       /\ (CallStep /\ call' = call /\ call.fr /\ outcome.kind = "instance"
                /\ trace = << >>)
            => (pc' = "idle" /\ trace' = << >> /\ outcome' = outcome
                    /\ ninst' = ninst)]_vars

\* C3 witness: the second of two successive resolve_url(url, True) calls for
\* a URL with a direct match has returned.
C3_Witness ==
    /\ pc = "idle"
    /\ again = "instance"
    /\ call.fr
    /\ Matching(plugins, NUrl(call)) # {}
    /\ outcome.kind = "instance"
    /\ outcome.inst.url = NUrl(call)
    /\ trace = << >>

\* A step in which a reader looks at the registry: a resolve_url call or
\* get_plugins.
ReaderStep == ncalls' # ncalls \/ UNCHANGED <<plugins, lvars, rvars>>

\* C4: a reader that runs while load_plugins is running finds the registry
\* either as it was before that call or as it is after it.
C4_LoadAtomic ==
    [][(lpc = "loop" /\ ReaderStep)
        => plugins \in {lbefore, LoadAll(lbefore, iter_modules(lpath))}]_vars

\* C5: the collection get_plugins returned keeps the contents it had when
\* it was returned.
C5_Snapshot == returned = "self.plugins" => Deref(returned) = heldAt

\* C6: at most one of the options ipv4 and ipv6 is true, and setting one of
\* them to true leaves the other false.
C6_AtMostOne ==
    /\ ~(Truthy(get_option("ipv4")) /\ Truthy(get_option("ipv6")))
    /\ lastset = [key |-> "ipv4", value |-> "True"]
            => get_option("ipv6") = "False"
    /\ lastset = [key |-> "ipv6", value |-> "True"]
            => get_option("ipv4") = "False"

\* C7: on a session constructed without options, the address-family
\* override agrees with the flags: IPv4-only exactly when ipv4 is true,
\* IPv6-only exactly when ipv6 is true, removed exactly when both are false.
C7_OverrideAgrees ==
    initopts = NoOptions
        => /\ (gai = "AF_INET") <=> Truthy(get_option("ipv4"))
           /\ (gai = "AF_INET6") <=> Truthy(get_option("ipv6"))
           /\ (gai = "default") <=>
                (~Truthy(get_option("ipv4")) /\ ~Truthy(get_option("ipv6")))

\* C8 (as stated): resolve_url_no_redirect (no load_plugins running) issues
\* no request, and fails with NoPluginError at once when no registered
\* plugin matches the URL.
C8_AsStated ==
    [][(CallStep /\ lpc = "idle" /\ call'.form = "kw" /\ ~call'.fr)
        => /\ pc' = "idle"
           /\ trace' = << >>
           /\ Matching(plugins, NUrl(call')) = {}
                => outcome'.kind = "NoPluginError"]_vars

\* C8 (amended): resolve_url_no_redirect issues no request; it fails with
\* NoPluginError at once when no registered plugin matches the URL and the
\* cache holds no outcome for the call, and returns the cached instance
\* when the cache holds one.
C8_NoRedirect ==
    [][(CallStep /\ call'.form = "kw" /\ ~call'.fr)
        => /\ pc' = "idle"
           /\ trace' = << >>
           /\ (Matching(plugins, NUrl(call')) = {}
                    /\ ~InCache(cache, CallKey(call')))
                => outcome'.kind = "NoPluginError"
           /\ InCache(cache, CallKey(call'))
                => outcome' = [kind |-> "instance",
                               inst |-> CacheVal(cache, CallKey(call'))]]_vars

\* C8 witness: resolve_url_no_redirect failed on a URL no plugin matches.
C8_Witness ==
    /\ pc = "idle"
    /\ call.form = "kw"
    /\ ~call.fr
    /\ Matching(plugins, NUrl(call)) = {}
    /\ outcome.kind = "NoPluginError"
    /\ trace = << >>

\* C9: a resolve_url call that has ended has produced a plugin instance or
\* NoPluginError.
C9_Terminates ==
    (pc = "idle" /\ ncalls > 0)
        => outcome.kind \in {"instance", "NoPluginError"}

\* C10: a call whose last probe failed at the transport layer fails with
\* NoPluginError and with no other error.
C10_ProbeFailureSwallowed ==
    (pc = "idle" /\ trace # << >> /\ Last(trace).res.kind = "error")
        => outcome.kind = "NoPluginError"

\* C10 witness: the HEAD request answered 501 and the GET fallback failed.
C10_Witness ==
    /\ pc = "idle"
    /\ Len(trace) = 2
    /\ trace[1].method = "HEAD"
    /\ trace[2].method = "GET"
    /\ trace[2].res.kind = "error"
    /\ outcome.kind = "NoPluginError"

\* The registry holds the descriptor (name, cls).
Registered(reg, n, c) == \E i \in 1..Len(reg) : reg[i] = [name |-> n, cls |-> c]
\* The number of entries the registry holds under the identifier n.
Entries(reg, n) == Cardinality({i \in 1..Len(reg) : reg[i].name = n})
\* A step of load_plugins that takes the module the loop is at.
ModuleStep == lpc = "loop" /\ lidx' = lidx + 1
\* The step at which load_plugins returns.
ReturnStep == lpc = "loop" /\ lpc' = "idle" /\ lraised' = "none"

\* C11: a load_plugins call over a directory with one module that cannot
\* be used and two valid modules raises nothing, registers both valid
\* modules and returns true, whatever the failure and the order.
C11_BadModuleIsolated ==
    (lpc = "idle" /\ lpath \in FaultyPaths)
        => /\ lraised = "none"
           /\ success
           /\ \A i \in 1..Len(iter_modules(lpath)) :
                LoadModuleValid(iter_modules(lpath)[i])
                    => Registered(plugins, iter_modules(lpath)[i].name,
                                  iter_modules(lpath)[i].cls)

\* C12: load_plugins returns true exactly when the call registered at
\* least one module, and when it returns false the registry is what it
\* was before the call; this holds of every call, the first or a later one.
C12_ReturnsSuccess ==
    [][ReturnStep
        => /\ success' <=> (lregistered' > 0)
           /\ ~success' => plugins' = lbefore]_vars

\* C12 witness: a later load_plugins call over a directory without any
\* valid module has returned false.
C12_Witness ==
    /\ lpc = "idle"
    /\ lpath = "invalid"
    /\ lraised = "none"
    /\ ~success
    /\ lregistered = 0

\* C13: the registry holds one entry per plugin identifier at any time,
\* and after a module is registered the entry of its identifier is the
\* plugin of that module; registering over an existing identifier raises
\* nothing and the loop goes on.
C13_OneEntryPerId ==
    [][/\ \A i \in 1..Len(plugins) : Entries(plugins, plugins[i].name) = 1
       /\ \A i \in 1..Len(plugins') : Entries(plugins', plugins'[i].name) = 1
       /\ (ModuleStep /\ LoadModuleValid(iter_modules(lpath)[lidx]))
            => /\ Registered(plugins', iter_modules(lpath)[lidx].name,
                             iter_modules(lpath)[lidx].cls)
               /\ Entries(plugins', iter_modules(lpath)[lidx].name) = 1
               /\ lraised' = "none"
               /\ lpc' = "loop"]_vars

\* C13 witness: the module alpha of the directory extra was registered
\* over the built-in alpha, and the registry holds the later plugin.
C13_Witness ==
    /\ lpc = "idle"
    /\ lpath = "extra"
    /\ lraised = "none"
    /\ Registered(plugins, "alpha", "A2")
    /\ ~Registered(plugins, "alpha", "A1")
    /\ Entries(plugins, "alpha") = 1

\* The plugin class that resolve_url(c) returns when it is called in the
\* current state and returns without a probe: the class of the cached
\* instance, or the best match of the registry.
Selected(c) ==
    IF InCache(cache, CallKey(c)) THEN CacheVal(cache, CallKey(c)).cls
    ELSE IF Matching(plugins, NUrl(c)) # {} THEN Best(plugins, NUrl(c))
    ELSE "none"
\* The call c with its URL spelled with the scheme http://.
WithScheme(c) == [c EXCEPT !.url = Url("http", c.url.rest)]

\* C14 (as stated): between calls, for every URL u without a scheme,
\* resolve_url(u) and resolve_url("http://" + u) select the same plugin.
C14_AsStated ==
    (pc = "idle" /\ lpc = "idle")
        => \A c \in Calls :
            c.url.scheme = "" => Selected(c) = Selected(WithScheme(c))

\* C14 (amended): a call that is not served from the cache selects the
\* plugin and constructs it with the URL that the call of the spelling
\* with http:// does; every frame matches on a URL with a scheme, and
\* normalizing the normalized URL changes nothing.  (A call that returns
\* at once returns the plugin named by Selected.)
C14_SchemeDefault ==
    [][/\ \A i \in 1..Len(stack') :
            /\ stack'[i].url.scheme # ""
            /\ update_scheme("http", stack'[i].url) = stack'[i].url
       /\ (CallStep /\ ~InCache(cache, CallKey(call')))
            => /\ NUrl(call') = NUrl(WithScheme(call'))
               /\ update_scheme("http", NUrl(call')) = NUrl(call')
               /\ (outcome'.kind = "instance")
                    <=> (Matching(plugins, NUrl(WithScheme(call'))) # {})
               /\ outcome'.kind = "instance"
                    => /\ outcome'.inst.cls = Best(plugins, NUrl(WithScheme(call')))
                       /\ outcome'.inst.url = NUrl(WithScheme(call'))
       /\ (CallStep /\ outcome'.kind = "instance")
            => outcome'.inst.cls = Selected(call')]_vars

\* C14 witness: resolve_url("a.tv") was not served from the cache and
\* returned a plugin constructed with http://a.tv.
C14_Witness ==
    /\ pc = "idle"
    /\ call.url = Url("", "a.tv")
    /\ outcome.kind = "instance"
    /\ outcome.inst.id = ninst
    /\ again = "no"
    /\ outcome.inst.url = Url("http", "a.tv")
    /\ trace = << >>

\* The two calls differ in the spelling of the URL only.
OtherSpelling(c, d) ==
    /\ c.url # d.url
    /\ NUrl(c) = NUrl(d)
    /\ c.form = d.form
    /\ c.fr = d.fr
\* The cache holds an entry stored under the URL u as it was passed.
StoredUnder(u) == \E i \in 1..Len(cache) : cache[i].key.url = u

\* C15 (as stated): a call that follows a call that returned an instance
\* and differs from it in the spelling of the URL only (with or without
\* http://) is served from the cache: same instance, no new instance, no
\* request.
C15_AsStated ==
    [][(CallStep /\ OtherSpelling(call, call') /\ outcome.kind = "instance")
        => /\ outcome' = outcome
           /\ ninst' = ninst
           /\ trace' = << >>]_vars

\* C15 (amended): the cache is looked up with the URL as it was passed: a
\* call whose URL has no entry under that spelling runs the matching and,
\* when a plugin matches, constructs a new instance, whatever the cache
\* holds under the other spelling.
C15_KeyedByGivenUrl ==
    [][(CallStep /\ ~StoredUnder(call'.url)
            /\ Matching(plugins, NUrl(call')) # {})
        => /\ outcome'.kind = "instance"
           /\ outcome'.inst.id = ninst + 1
           /\ ninst' = ninst + 1
           /\ outcome'.inst.cls = Best(plugins, NUrl(call'))]_vars

\* C15 witness: resolve_url("a.tv") after resolve_url("http://a.tv")
\* constructed a second instance, and the cache holds the two entries.
C15_Witness ==
    /\ pc = "idle"
    /\ call = Call(Url("", "a.tv"), "dflt", TRUE)
    /\ outcome.kind = "instance"
    /\ outcome.inst.id = 2
    /\ InCache(cache, Key(Url("http", "a.tv"), "dflt", TRUE))
    /\ InCache(cache, Key(Url("", "a.tv"), "dflt", TRUE))
    /\ CacheVal(cache, Key(Url("http", "a.tv"), "dflt", TRUE)).id = 1

\* C16 (as stated): an outcome that is in the cache under a key stays
\* there, so that every later call with that key is served with it.
C16_AsStated ==
    [][\A i \in 1..Len(cache) :
        /\ InCache(cache', cache[i].key)
        /\ CacheVal(cache', cache[i].key) = cache[i].val]_vars

\* C16 (amended): a call whose key is in the cache returns the cached
\* instance without matching, construction or request; an entry stays in
\* the cache with its instance until it is evicted, and only a full cache
\* evicts.
C16_ServedWhileCached ==
    [][/\ (CallStep /\ InCache(cache, CallKey(call')))
            => /\ outcome' = [kind |-> "instance",
                              inst |-> CacheVal(cache, CallKey(call'))]
               /\ ninst' = ninst
               /\ pc' = "idle"
               /\ trace' = << >>
       /\ \A i \in 1..Len(cache) :
            \/ /\ InCache(cache', cache[i].key)
               /\ CacheVal(cache', cache[i].key) = cache[i].val
            \/ Len(cache') = CacheSize]_vars

\* C16 witness: resolve_url("http://a.tv", follow_redirect=True) was
\* served with the instance stored during the resolution of another key
\* (the redirect of http://r.tv), which was stored after it.
C16_Witness ==
    /\ pc = "idle"
    /\ ncalls = 2
    /\ call = Call(Url("http", "a.tv"), "kw", TRUE)
    /\ outcome.kind = "instance"
    /\ outcome.inst.id = 1
    /\ ninst = 1
    /\ InCache(cache, Key(Url("http", "r.tv"), "pos", TRUE))
    /\ trace = << >>

\* The entries of the cache other than the entry of key k, in order.
RECURSIVE Others(_, _)
Others(c, k) ==
    IF c = << >> THEN << >>
    ELSE IF Head(c).key = k THEN Others(Tail(c), k)
    ELSE <<Head(c)>> \o Others(Tail(c), k)

\* C17: the cache never holds more than its capacity; a hit moves its
\* entry to the most recently used end and leaves the others in order; a
\* call that returns a new instance stores it at the most recently used
\* end, and when the cache was full the least recently used entry is the
\* one that goes.
C17_BoundedLru ==
    [][/\ Len(cache) <= CacheSize
       /\ Len(cache') <= CacheSize
       /\ (CallStep /\ InCache(cache, CallKey(call')))
            => /\ Len(cache') = Len(cache)
               /\ Last(cache') = [key |-> CallKey(call'),
                                  val |-> CacheVal(cache, CallKey(call'))]
               /\ Others(cache', CallKey(call')) = Others(cache, CallKey(call'))
       /\ (CallStep /\ ~InCache(cache, CallKey(call'))
                /\ outcome'.kind = "instance")
            => cache' = Append(IF Len(cache) = CacheSize
                                 THEN Tail(cache) ELSE cache,
                               [key |-> CallKey(call'), val |-> outcome'.inst])]_vars

\* C17 witness: the cache is full, the last call stored a second instance,
\* and the entry that the first instance was first stored under (the URL
\* it was constructed with) was evicted; the entry of the redirecting URL,
\* stored after it, is still there.
C17_Witness ==
    /\ pc = "idle"
    /\ Len(cache) = CacheSize
    /\ outcome.kind = "instance"
    /\ outcome.inst.id = 2
    /\ Last(cache).val = outcome.inst
    /\ cache[1].val.id = 1
    /\ \A i \in 1..Len(cache) :
            cache[i].val.id = 1 => cache[i].key.url # cache[i].val.url

\* A step that is a set_option call.
SetStep == nsets' = nsets + 1
\* The keys set_option has a branch for (lines 296-370).
SpecializedKeys ==
    {"interface", "ipv4", "ipv6", "http-proxy", "https-proxy",
     "http-cookies", "http-headers", "http-query-params", "http-trust-env",
     "http-ssl-verify", "http-disable-dh", "http-ssl-cert", "http-timeout",
     "http-report-uri", "http-report-interval", "stop-stream-playing",
     "error-http-status-codes"}

\* C18: set_option of a key that is not specialized stores the value as
\* it is, get_option of the key then returns that value, and no other
\* option, no transport setting, no address-family override, no cipher
\* list, no registry entry and no cache entry changes.
C18_GenericVerbatim ==
    [][(SetStep /\ lastset'.key \notin SpecializedKeys)
        => /\ get_option(lastset.key)' = lastset'.value
           /\ DOMAIN options' = DOMAIN options \cup {lastset'.key}
           /\ \A k \in DOMAIN options \ {lastset'.key} : options'[k] = options[k]
           /\ \A k \in OptionKeys \ {lastset'.key} : get_option(k)' = get_option(k)
           /\ UNCHANGED <<http, gai, ciphers, plugins, cache>>]_vars

\* C18 witness: after other options were set, set_option stored True
\* under a key that is not among the defaults, and get_option returns it.
C18_Witness ==
    /\ nsets >= 3
    /\ lastset = [key |-> "custom", value |-> "True"]
    /\ get_option("custom") = "True"
    /\ get_option("locale") = "False"
    /\ http.proxies.http # NoProxy

\* What get_option returns when it reflects set_option(key, value): the
\* proxy with its scheme, the value itself for every other key.
Reflected(key, value) ==
    CASE key = "http-proxy" -> update_scheme("http", ParseUrl(value))
      [] key = "https-proxy" -> update_scheme("https", ParseUrl(value))
      [] OTHER -> value

\* C19: get_option of the key of the last set_option call reflects the
\* value that call set, for every key set_option has a branch for.
C19_GetMirrorsSet ==
    (nsets > 0 /\ lastset.key \in SpecializedKeys)
        => get_option(lastset.key) = Reflected(lastset.key, lastset.value)

\* C20: set_option("http-proxy", v) sets the HTTP proxy to v with the
\* scheme http:// when v has none, and the HTTPS proxy to the same URL
\* exactly when no HTTPS proxy was set; set_option("https-proxy", v) sets
\* the HTTPS proxy to v with the scheme https:// when v has none and
\* leaves the HTTP proxy as it was.
C20_ProxySeeding ==
    [][/\ (SetStep /\ lastset'.key = "http-proxy")
            => /\ get_option("http-proxy")'
                    = update_scheme("http", ParseUrl(lastset'.value))
               /\ get_option("https-proxy") = NoProxy
                    => get_option("https-proxy")' = get_option("http-proxy")'
               /\ get_option("https-proxy") # NoProxy
                    => get_option("https-proxy")' = get_option("https-proxy")
       /\ (SetStep /\ lastset'.key = "https-proxy")
            => /\ get_option("https-proxy")'
                    = update_scheme("https", ParseUrl(lastset'.value))
               /\ get_option("http-proxy")' = get_option("http-proxy")]_vars

\* C20 witness: the HTTP proxy was set after the HTTPS proxy, which is
\* still the one set_option("https-proxy", "https://b.proxy") gave.
C20_Witness ==
    /\ lastset = [key |-> "http-proxy", value |-> "a.proxy"]
    /\ get_option("http-proxy") = Url("http", "a.proxy")
    /\ get_option("https-proxy") = Url("https", "b.proxy")

\* C21: set_option("interface", v) raises nothing; after a falsy v no
\* adapter has a source address and get_option("interface") is None,
\* after any other v both adapters are bound to v and
\* get_option("interface") is v.
C21_InterfaceBinding ==
    (nsets > 0 /\ lastset.key = "interface")
        => /\ oraised = "none"
           /\ Truthy(lastset.value)
                => /\ \A a \in DOMAIN http.source : http.source[a] = lastset.value
                   /\ get_option("interface") = lastset.value
           /\ ~Truthy(lastset.value)
                => /\ \A a \in DOMAIN http.source : http.source[a] = "unbound"
                   /\ get_option("interface") = "None"

\* The segments of the string value of a set_option call on key.
SegmentsOf(key, value) == Split(Text(value), Separator(key))

\* C22: set_option on http-cookies, http-headers or http-query-params
\* with a string in which some segment has no "=" fails with
\* InvalidOption.
C22_MalformedSegment ==
    [][(SetStep /\ lastset'.key \in KeyValueKeys /\ ~IsDict(lastset'.value)
            /\ \E i \in 1..Len(SegmentsOf(lastset'.key, lastset'.value)) :
                    "=" \notin {SegmentsOf(lastset'.key, lastset'.value)[i][j] :
                        j \in 1..Len(SegmentsOf(lastset'.key, lastset'.value)[i])})
        => oraised' = "InvalidOption"]_vars

\* C22 witness: set_option("http-query-params", "a=1&b") has failed with
\* InvalidOption.
C22_Witness ==
    /\ lastset = [key |-> "http-query-params", value |-> "a=1&b"]
    /\ oraised = "InvalidOption"

\* The cookies, headers or parameters that a well-formed string spells.
Spelled(v) ==
    CASE v \in {"a=1;b=2", "a=1&b=2"} -> (<<"a">> :> <<"1">>) @@ (<<"b">> :> <<"2">>)
      [] v = "b=3" -> (<<"b">> :> <<"3">>)

\* C23: set_option on http-cookies, http-headers or http-query-params
\* with a string of key=value segments (separated by ";", for
\* http-query-params by "&") raises nothing and adds one entry per
\* segment, with its key and value, to the cookies, headers or parameters
\* and nothing else; the other two collections stay as they are.
C23_OnePerSegment ==
    [][(SetStep /\ lastset'.key \in KeyValueKeys
            /\ lastset'.value \in {"a=1;b=2", "a=1&b=2", "b=3"})
        => /\ oraised' = "none"
           /\ DOMAIN get_option(lastset.key)'
                = DOMAIN get_option(lastset'.key) \cup DOMAIN Spelled(lastset'.value)
           /\ \A k \in DOMAIN get_option(lastset.key)' :
                get_option(lastset.key)'[k]
                    = IF k \in DOMAIN Spelled(lastset'.value)
                      THEN Spelled(lastset'.value)[k]
                      ELSE get_option(lastset'.key)[k]
           /\ \A key \in KeyValueKeys \ {lastset'.key} :
                get_option(key)' = get_option(key)]_vars

\* C23 witness: after set_option("http-cookies", "a=1;b=2") on a session
\* without cookies, the cookies are a=1 and b=2.
C23_Witness ==
    /\ lastset = [key |-> "http-cookies", value |-> "a=1;b=2"]
    /\ oraised = "none"
    /\ get_option("http-cookies") = (<<"a">> :> <<"1">>) @@ (<<"b">> :> <<"2">>)

\* C24 as stated: set_option("error-http-status-codes", v) parses the
\* entries of v ("600T700" to 600..700, "600T" to 600 and above, "T700" to
\* 700 and below, a bare integer to that code), and get_option returns the
\* default [403] on a session where the option was never set.
C24_AsStated ==
    [][/\ nsets = 0 => get_option("error-http-status-codes")
                            = [kind |-> "codes", text |-> "", lo |-> 403, hi |-> 403]
       /\ (SetStep /\ lastset'.key = "error-http-status-codes")
            => get_option("error-http-status-codes")' = ParsedCodes(lastset'.value)]_vars

\* C24: set_option("error-http-status-codes", v) raises nothing and stores
\* v as it was given, without parsing its entries; get_option returns
\* exactly v; the value changes by no other step, and on a session where
\* the option was never set it is the default [403].
C24_StoredAsGiven ==
    [][/\ nsets = 0 => get_option("error-http-status-codes")
                            = [kind |-> "codes", text |-> "", lo |-> 403, hi |-> 403]
       /\ IF SetStep /\ lastset'.key = "error-http-status-codes"
          THEN /\ oraised' = "none"
               /\ get_option("error-http-status-codes")'
                    = [kind |-> "given", text |-> lastset'.value, lo |-> 0, hi |-> 0]
          ELSE get_option("error-http-status-codes")'
                    = get_option("error-http-status-codes")]_vars

\* C24 witness: after set_option("error-http-status-codes", "600T700")
\* get_option returns the text "600T700".
C24_Witness ==
    /\ lastset = [key |-> "error-http-status-codes", value |-> "600T700"]
    /\ get_option("error-http-status-codes").text = "600T700"

\* The text that a base64 value of the model spells.
Decoded(v) ==
    CASE v = "aHR0cDovL3IudHY=" -> <<"h", "t", "t", "p", ":", "/", "/", "r", ".", "t", "v">>

\* C25: set_option("http-report-uri", v) with a string v that begins with
\* "http" stores v unchanged; with any other string, when the call raises
\* nothing, it stores the text that v spells in URL-safe base64 and never
\* v itself; get_option("http-report-uri") returns what was stored.
C25_ReportUriDecoded ==
    [][(SetStep /\ lastset'.key = "http-report-uri" /\ IsStr(lastset'.value)
            /\ oraised' = "none")
        => /\ get_option("http-report-uri")' = http'.report_uri
           /\ get_option("http-report-uri")'.kind = "str"
           /\ get_option("http-report-uri")'.text
                = IF lastset'.value = "http://r.tv"
                  THEN Text(lastset'.value)
                  ELSE Decoded(lastset'.value)
           /\ lastset'.value # "http://r.tv"
                => get_option("http-report-uri")'.text # Text(lastset'.value)]_vars

\* C25 witness: after set_option("http-report-uri", "aHR0cDovL3IudHY=")
\* get_option returns the decoded text "http://r.tv".
C25_Witness ==
    /\ lastset = [key |-> "http-report-uri", value |-> "aHR0cDovL3IudHY="]
    /\ oraised = "none"
    /\ get_option("http-report-uri")
            = [kind |-> "str",
               text |-> <<"h", "t", "t", "p", ":", "/", "/", "r", ".", "t", "v">>]

\* C26: no operation of the session fails with an error other than
\* NoPluginError or InvalidOption.
C26_OnlyTwoErrors ==
    /\ oraised \in {"none", "InvalidOption"}
    /\ lraised = "none"
    /\ outcome.kind \in {"none", "instance", "NoPluginError"}

\* C27: a streams call that has come back resolved its url with redirect
\* following enabled; when the resolution returned an instance, the
\* stream enumeration of that instance was invoked exactly once, with the
\* params of the call, and its result returned; otherwise the call failed
\* with NoPluginError and no stream enumeration was invoked.
C27_ResolveThenEnumerate ==
    (spc = "idle" /\ sresult.kind # "none")
        => /\ call.fr
           /\ IF outcome.kind = "instance"
              THEN /\ enumerated = <<[inst |-> outcome.inst, params |-> sparams]>>
                   /\ sresult = [kind |-> "streams", inst |-> outcome.inst,
                                 params |-> sparams]
              ELSE /\ enumerated = << >>
                   /\ sresult.kind = "NoPluginError"

\* The documented defaults: null as "None", false as "False".
DocumentedDefaults ==
       ("interface" :> "None")
    @@ ("ipv4" :> "False")
    @@ ("ipv6" :> "False")
    @@ ("dash-live-edge" :> "3")
    @@ ("hds-live-edge" :> "10.0")
    @@ ("hds-segment-attempts" :> "3")
    @@ ("hds-segment-threads" :> "1")
    @@ ("hds-segment-timeout" :> "10.0")
    @@ ("hds-timeout" :> "60.0")
    @@ ("hls-live-edge" :> "3")
    @@ ("hls-segment-host" :> "None")
    @@ ("hls-segment-attempts" :> "3")
    @@ ("hls-segment-ignore-names" :> "[]")
    @@ ("hls-segment-threads" :> "1")
    @@ ("hls-segment-timeout" :> "10.0")
    @@ ("hls-timeout" :> "60.0")
    @@ ("hls-playlist-reload-attempts" :> "3")
    @@ ("hls-playlist-reload-time" :> "default")
    @@ ("hls-start-offset" :> "0")
    @@ ("hls-duration" :> "None")
    @@ ("http-stream-timeout" :> "60.0")
    @@ ("hls-token-period" :> "60.0")
    @@ ("ringbuffer-size" :> (16 * 1024 * 1024))
    @@ ("rtmp-timeout" :> "60.0")
    @@ ("stream-segment-attempts" :> "3")
    @@ ("stream-segment-threads" :> "1")
    @@ ("stream-segment-timeout" :> "10.0")
    @@ ("stream-timeout" :> "60.0")
    @@ ("drm-decrypt-key" :> "None")
    @@ ("drm-temp-dir" :> "None")
    @@ ("stream-max-playback-duration" :> "0")
    @@ ("mux-subtitles" :> "False")
    @@ ("locale" :> "None")
    @@ ("user-input-requester" :> "None")

ProbeStep == Len(trace') = Len(trace) + 1
Answered(p) ==
    p.res.kind = "response" /\ ~(p.method = "HEAD" /\ p.res.status = 501)

\* C29: a resolve_url frame comes to its probe only with follow_redirect
\* true and no registered plugin matching its URL; every GET comes right
\* after a HEAD of the same URL that answered 501, and every HEAD but the
\* first is on the final URL of the probe before it, which differs from
\* the URL of that probe (so a visit issues at most one HEAD and one
\* GET); a probe whose final URL is the probed URL ends the call with
\* NoPluginError, and the resolution recurses only on a final URL that
\* differs.
C29_ProbeOrder ==
    [][/\ (pc' = "head" /\ stack' # stack)
            => /\ Last(stack').fr /\ call'.fr
               /\ Matching(plugins, Last(stack').url) = {}
       /\ ProbeStep
            => /\ Last(trace').method = (IF pc = "head" THEN "HEAD" ELSE "GET")
               /\ pc \in {"head", "get"}
               /\ Last(trace').url = Last(stack).url
       /\ \A i \in 1..Len(trace) :
            /\ trace[i].method = "GET"
                => /\ i > 1
                   /\ trace[i - 1].method = "HEAD"
                   /\ trace[i - 1].url = trace[i].url
                   /\ trace[i - 1].res.kind = "response"
                   /\ trace[i - 1].res.status = 501
            /\ (trace[i].method = "HEAD" /\ i > 1)
                => /\ Answered(trace[i - 1])
                   /\ trace[i - 1].res.url = trace[i].url
                   /\ trace[i - 1].url # trace[i].url
       /\ (ProbeStep /\ Answered(Last(trace'))
                /\ Last(trace').res.url = Last(trace').url)
            => (pc' = "idle" /\ outcome'.kind = "NoPluginError")
       /\ (pc # "idle" /\ Len(stack') > Len(stack))
            => /\ ProbeStep /\ Answered(Last(trace'))
               /\ Last(trace').res.url # Last(stack).url
               /\ Last(stack').url = Last(trace').res.url]_vars

\* C29 witness: the HEAD of the first URL answered 501, its GET ended at
\* another URL, and the resolution went on with the HEAD of that URL.
C29_Witness ==
    /\ Len(trace) = 3
    /\ trace[1].method = "HEAD" /\ trace[1].res.status = 501
    /\ trace[2].method = "GET" /\ trace[2].res.url # trace[2].url
    /\ trace[3].method = "HEAD" /\ trace[3].url = trace[2].res.url
    /\ trace[3].res.url = trace[3].url
    /\ outcome.kind = "NoPluginError"

\* The cache entries stored for the arguments c of a resolve_url call.
Held(c) ==
    {i \in 1..Len(cache) :
        /\ cache[i].key.url = c.url
        /\ cache[i].key.form = c.form
        /\ cache[i].key.fr = c.fr}

\* C30: a resolve_url call whose arguments have an entry in the cache
\* returns the instance of that entry and constructs nothing, whatever the
\* registry and the options have become since it was stored; and a step
\* of load_plugins or a set_option leaves the cache as it is.
C30_NeverInvalidated ==
    [][/\ (CallStep /\ Held(call') # {})
            => /\ \A i \in Held(call') :
                    outcome' = [kind |-> "instance", inst |-> cache[i].val]
               /\ ninst' = ninst
               /\ pc' = "idle"
       /\ (plugins' # plugins \/ lpc' # lpc \/ SetStep) => cache' = cache]_vars

\* C30 witness: the second resolve_url call with the same arguments has
\* returned the instance of the first although, since the first, the
\* plugin of that instance was overridden, a matching plugin of higher
\* priority was registered and an option was set.
C30_Witness ==
    /\ pc = "idle"
    /\ ncalls = 2
    /\ again = "instance"
    /\ ninst = 1
    /\ outcome.kind = "instance"
    /\ outcome.inst.cls = "A1"
    /\ \A i \in 1..Len(plugins) : plugins[i].cls # "A1"
    /\ Matching(plugins, NUrl(call)) # {}
    /\ Best(plugins, NUrl(call)) = "G1"
    /\ nsets > 0

\* C31 as stated: a resolve_url call (made directly, by streams or by
\* resolve_url_no_redirect) that follows a call with the same URL and the
\* same effective follow_redirect value which returned an instance
\* returns that instance, however the arguments were passed.
C31_AsStated ==
    [][(CallStep /\ outcome.kind = "instance"
            /\ call'.url = call.url /\ call'.fr = call.fr)
        => outcome' = outcome]_vars

\* C31: the cache key holds the arguments as they were passed: of two
\* successive calls with the same URL and the same effective
\* follow_redirect value, the second returns the instance of the first
\* exactly when follow_redirect was passed in the same way (left out, by
\* position, by keyword); streams(url) calls resolve_url(url) and
\* resolve_url_no_redirect(url) calls resolve_url(url,
\* follow_redirect=False).
C31_KeyedByForm ==
    [][/\ (CallStep /\ outcome.kind = "instance"
                /\ call'.url = call.url /\ call'.fr = call.fr)
            => /\ outcome'.kind = "instance"
               /\ (outcome' = outcome) <=> (call'.form = call.form)
       /\ (CallStep /\ spc' # spc) => (call'.form = "dflt" /\ call'.fr)
       /\ (CallStep /\ sresult' # sresult) => (call'.form = "dflt" /\ call'.fr)]_vars

\* C31 witness: streams("http://a.tv") after resolve_url("http://a.tv",
\* True) has resolved again and enumerated a second instance; the cache
\* holds one entry for each of the two calls.
C31_Witness ==
    /\ ncalls = 2
    /\ call = Call(Url("http", "a.tv"), "dflt", TRUE)
    /\ sresult.kind = "streams"
    /\ sresult.inst.id = 2
    /\ Len(cache) = 2
    /\ cache[1].key.form = "pos" /\ cache[1].key.fr /\ cache[1].val.id = 1
    /\ cache[2].key.form = "dflt" /\ cache[2].val.id = 2
    /\ cache[1].key.url = cache[2].key.url

\* The entries of a mapping value.
Given(v) ==
    CASE v = "dict(b=4)" -> {[k |-> <<"b">>, v |-> <<"4">>]}
      [] v = "dict(a=5,b=6)" -> {[k |-> <<"a">>, v |-> <<"5">>],
                                 [k |-> <<"b">>, v |-> <<"6">>]}

\* C32: set_option on http-cookies, http-headers or http-query-params
\* with a mapping raises nothing and merges it into the collection of
\* that key: an entry of the mapping is in the collection afterwards,
\* every other entry of the collection is as it was and nothing else is
\* added (so a sequence of such calls leaves the right-biased union of
\* the mappings); the other two collections stay as they are.
C32_MappingMerged ==
    [][(SetStep /\ lastset'.key \in KeyValueKeys
            /\ lastset'.value \in {"dict(b=4)", "dict(a=5,b=6)"})
        => /\ oraised' = "none"
           /\ \A e \in Given(lastset'.value) :
                /\ e.k \in DOMAIN get_option(lastset.key)'
                /\ get_option(lastset.key)'[e.k] = e.v
           /\ \A k \in DOMAIN get_option(lastset'.key) :
                /\ k \in DOMAIN get_option(lastset.key)'
                /\ k \notin {e.k : e \in Given(lastset'.value)}
                    => get_option(lastset.key)'[k] = get_option(lastset'.key)[k]
           /\ DOMAIN get_option(lastset.key)'
                = DOMAIN get_option(lastset'.key)
                    \cup {e.k : e \in Given(lastset'.value)}
           /\ \A key \in KeyValueKeys \ {lastset'.key} :
                get_option(key)' = get_option(key)]_vars

\* C32 witness: after the mappings {a: 5, b: 6} and then {b: 4} were set
\* on http-headers, the headers are the default header with a=5 and b=4.
C32_Witness ==
    /\ nsets = 2
    /\ lastset = [key |-> "http-headers", value |-> "dict(b=4)"]
    /\ get_option("http-headers")
            = (<<"A", "c", "c", "e", "p", "t">> :> <<"*", "/", "*">>)
                @@ (<<"a">> :> <<"5">>) @@ (<<"b">> :> <<"4">>)

\* C33: the class registered under a name was bound once, to the session,
\* to that name and to the class the registry holds; load_plugins reads
\* the user-input-requester when it is called, and a module it registers
\* is bound to the value read then; no other step, and so no later
\* set_option("user-input-requester", r), changes what a registered class
\* was bound to.
C33_BoundAtRegistration ==
    [][/\ \A i \in 1..Len(plugins) :
            /\ plugins[i].name \in DOMAIN bound
            /\ bound[plugins[i].name].binds = 1
            /\ bound[plugins[i].name].session = "s1"
            /\ bound[plugins[i].name].module = plugins[i].name
            /\ bound[plugins[i].name].cls = plugins[i].cls
       /\ (lpc = "idle" /\ lpc' = "loop")
            => lrequester' = get_option("user-input-requester")
       /\ ModuleStep
            => /\ lrequester' = lrequester
               /\ iter_modules(lpath)[lidx].kind = "plugin"
                    => bound'[iter_modules(lpath)[lidx].name].requester = lrequester
       /\ \A n \in DOMAIN bound :
            ~(ModuleStep /\ iter_modules(lpath)[lidx].name = n)
                => (n \in DOMAIN bound' /\ bound'[n] = bound[n])]_vars

\* C33 witness: gamma was registered by a load_plugins call made while
\* the requester was r1, the requester was set to r2 after the call, and
\* gamma is still bound to r1 and beta to the requester of construction.
C33_Witness ==
    /\ lpc = "idle"
    /\ "gamma" \in DOMAIN bound
    /\ bound["gamma"].requester = "r1"
    /\ bound["beta"].requester = "None"
    /\ get_option("user-input-requester") = "r2"
    /\ lastset = [key |-> "user-input-requester", value |-> "r2"]

\* The identifiers in the order in which they were first registered: the
\* built-in alpha and beta, then delta.
FirstRegistered == <<"alpha", "beta", "delta">>

\* C34: the identifiers of the registry are in the order of their first
\* registration; a step of load_plugins that registers an identifier the
\* registry holds puts the new class at the position of that identifier
\* and moves nothing; and a resolution that is not served from the cache
\* selects, among the matching plugins of highest priority, the one whose
\* identifier was registered first.
C34_OverrideKeepsPlace ==
    [][/\ [i \in 1..Len(plugins) |-> plugins[i].name]
            = SubSeq(FirstRegistered, 1, Len(plugins))
       /\ (ModuleStep /\ iter_modules(lpath)[lidx].kind = "plugin"
                /\ HasName(plugins, iter_modules(lpath)[lidx].name))
            => /\ Len(plugins') = Len(plugins)
               /\ \A i \in 1..Len(plugins) :
                    plugins'[i] = IF plugins[i].name = iter_modules(lpath)[lidx].name
                                  THEN [name |-> plugins[i].name,
                                        cls |-> iter_modules(lpath)[lidx].cls]
                                  ELSE plugins[i]
       /\ (CallStep /\ Matching(plugins, NUrl(call')) # {} /\ ninst' # ninst)
            => \E i \in Matching(plugins, NUrl(call')) :
                /\ outcome'.inst.cls = plugins[i].cls
                /\ \A j \in Matching(plugins, NUrl(call')) :
                    \/ priority(plugins[j].cls, NUrl(call'))
                            < priority(plugins[i].cls, NUrl(call'))
                    \/ /\ priority(plugins[j].cls, NUrl(call'))
                            = priority(plugins[i].cls, NUrl(call'))
                       /\ \E a, b \in 1..Len(FirstRegistered) :
                            /\ a <= b
                            /\ FirstRegistered[a] = plugins[i].name
                            /\ FirstRegistered[b] = plugins[j].name]_vars

\* C34 witness: load_plugins re-registered beta and after it alpha, and a
\* resolution of http://a.tv made after the call chose the class of alpha
\* over the class of beta, which has the same priority.
C34_Witness ==
    /\ lpc = "idle"
    /\ lpath = "more"
    /\ plugins = <<[name |-> "alpha", cls |-> "A1"],
                   [name |-> "beta", cls |-> "B2"],
                   [name |-> "delta", cls |-> "D1"]>>
    /\ pc = "idle"
    /\ ncalls = 1
    /\ NUrl(call) = Url("http", "a.tv")
    /\ outcome.kind = "instance"
    /\ outcome.inst.cls = "A1"

\* The redirects that the probes of a call followed.
Redirects(t) == {i \in 1..Len(t) : Answered(t[i]) /\ t[i].res.url # t[i].url}

\* C35: a resolve_url call that follows redirects and returns a newly
\* constructed instance has constructed it with the final URL of its last
\* probe, which is not the URL of the call; after one redirect the cache
\* holds that instance under the key of the call and under the key of the
\* recursive call resolve_url(final, follow_redirect=True); and a call
\* that repeats it returns the same instance without a probe.
C35_RedirectCached ==
    [][/\ (ProbeStep /\ pc' = "idle" /\ outcome'.kind = "instance")
            => /\ call.fr
               /\ InCache(cache', CallKey(call))
               /\ CacheVal(cache', CallKey(call)) = outcome'.inst
               /\ ninst' = ninst + 1
                    => /\ outcome'.inst.url = Last(trace').res.url
                       /\ outcome'.inst.url # NUrl(call)
               /\ Cardinality(Redirects(trace')) = 1
                    => /\ InCache(cache', Key(Last(trace').res.url, "kw", TRUE))
                       /\ CacheVal(cache', Key(Last(trace').res.url, "kw", TRUE))
                            = outcome'.inst
       /\ (CallStep /\ call' = call /\ outcome.kind = "instance" /\ trace # << >>)
            => /\ outcome' = outcome
               /\ trace' = << >>
               /\ ninst' = ninst
               /\ pc' = "idle"]_vars

\* C35 witness: resolve_url("http://r.tv", True) was redirected to
\* http://a.tv by its HEAD probe and returned an instance constructed
\* with http://a.tv; the second call returned that instance without a
\* probe, and the cache holds it under both keys.
C35_Witness ==
    /\ pc = "idle"
    /\ ncalls = 2
    /\ again = "instance"
    /\ call = Call(Url("http", "r.tv"), "pos", TRUE)
    /\ trace = << >>
    /\ ninst = 1
    /\ outcome.kind = "instance"
    /\ outcome.inst.url = Url("http", "a.tv")
    /\ InCache(cache, Key(Url("http", "r.tv"), "pos", TRUE))
    /\ InCache(cache, Key(Url("http", "a.tv"), "kw", TRUE))

\* A step that is a set_option call on the second session.
PeerSetStep == npsets' = npsets + 1
\* The override that a set_option call on ipv4 or ipv6 asks for.
Asked(c) ==
    IF c.value = "True" THEN (IF c.key = "ipv4" THEN "AF_INET" ELSE "AF_INET6")
    ELSE "default"

\* C36: a set_option on ipv4 or ipv6 of either session installs or
\* removes the one override of the process as that call asks, whatever
\* the other session installed; it leaves the ipv4 and ipv6 options of the
\* other session as they are.
C36_ProcessGlobal ==
    [][/\ PeerSetStep
            => /\ gai' = Asked(peerSet')
               /\ get_option("ipv4")' = get_option("ipv4")
               /\ get_option("ipv6")' = get_option("ipv6")
       /\ (SetStep /\ lastset'.key \in {"ipv4", "ipv6"})
            => /\ gai' = Asked(lastset')
               /\ peerOptions' = peerOptions]_vars

\* C36 witness: the first session set ipv4 to True, then the second
\* session set ipv6 to True: the override is IPv6-only while ipv4 is still
\* True and ipv6 False on the first session.
C36_Witness ==
    /\ nsets = 1
    /\ lastset = [key |-> "ipv4", value |-> "True"]
    /\ npsets = 1
    /\ peerSet = [key |-> "ipv6", value |-> "True"]
    /\ gai = "AF_INET6"
    /\ get_option("ipv4") = "True"
    /\ get_option("ipv6") = "False"

\* A step that is a resolve_url call on the second session.
PeerStep == npeer' = npeer + 1
\* The entries of the cache c made by calls on the session self.
EntriesOf(c, self) == {i \in 1..Len(c) : c[i].key.self = self}
\* The instance v is held in c by the session self and by no other.
HeldOnlyBy(c, v, self) ==
    /\ \E i \in EntriesOf(c, self) : c[i].val = v
    /\ \A i \in 1..Len(c) : c[i].val = v => c[i].key.self = self

\* C37: the two sessions use one cache of CacheSize entries; an instance
\* returned to a call on one session is new or was cached by a call of
\* that session, never by the other; and a call of one session that
\* stores in a full cache evicts the least recently used entry, whichever
\* session made it.
C37_SharedStore ==
    [][/\ Len(cache') <= CacheSize
       /\ (PeerStep /\ peerOutcome'.kind = "instance")
            => /\ \/ peerOutcome'.inst.id = ninst + 1
                  \/ HeldOnlyBy(cache, peerOutcome'.inst, "s2")
               /\ HeldOnlyBy(cache', peerOutcome'.inst, "s2")
       /\ (CallStep /\ outcome'.kind = "instance")
            => /\ \/ outcome'.inst.id = ninst + 1
                  \/ HeldOnlyBy(cache, outcome'.inst, "s1")
               /\ HeldOnlyBy(cache', outcome'.inst, "s1")
       /\ ((PeerStep \/ CallStep) /\ ninst' = ninst + 1
                /\ Len(cache) = CacheSize)
            => ~InCache(cache', cache[1].key)]_vars

\* C37 witness: the instance the first session got for its call is no
\* longer cached: the calls of the second session filled the cache.
C37_Witness ==
    /\ ncalls = 1
    /\ outcome.kind = "instance"
    /\ ~InCache(cache, CallKey(call))
    /\ npeer = 2
    /\ Len(cache) = CacheSize
    /\ EntriesOf(cache, "s1") = {}
    /\ peerCall.url = call.url /\ peerCall.form = call.form /\ peerCall.fr = call.fr
    /\ peerOutcome.kind = "instance"
    /\ peerOutcome.inst # outcome.inst

\* The proxy URL p is the one the value v names, with the scheme dflt when
\* v has none.
Names(p, v, dflt) ==
    /\ p.rest = ParseUrl(v).rest
    /\ p.scheme = (IF ParseUrl(v).scheme = "" THEN dflt ELSE ParseUrl(v).scheme)
\* The second set_option call on a session, after a first call on key.
SecondAfter(key) == nsets = 1 /\ lastset.key = key /\ SetStep

\* C38: on a session with no proxy set, http-proxy a followed by
\* https-proxy b, or https-proxy b followed by http-proxy a, ends with
\* HTTP proxy a and HTTPS proxy b; http-proxy a followed by http-proxy c
\* ends with HTTP proxy c and the HTTPS proxy that was seeded from a.
C38_ProxyOrder ==
    [][/\ (SecondAfter("http-proxy") /\ lastset'.key = "https-proxy")
            => /\ Names(get_option("http-proxy")', lastset.value, "http")
               /\ Names(get_option("https-proxy")', lastset'.value, "https")
       /\ (SecondAfter("https-proxy") /\ lastset'.key = "http-proxy")
            => /\ Names(get_option("http-proxy")', lastset'.value, "http")
               /\ Names(get_option("https-proxy")', lastset.value, "https")
       /\ (SecondAfter("http-proxy") /\ lastset'.key = "http-proxy")
            => /\ Names(get_option("http-proxy")', lastset'.value, "http")
               /\ Names(get_option("https-proxy")', lastset.value, "http")]_vars

\* C38 witness: http-proxy was set to a.proxy and then to https://b.proxy
\* with no https-proxy call: the HTTPS proxy is still http://a.proxy.
C38_Witness ==
    /\ nsets = 2
    /\ lastset = [key |-> "http-proxy", value |-> "https://b.proxy"]
    /\ get_option("http-proxy") = Url("https", "b.proxy")
    /\ get_option("https-proxy") = Url("http", "a.proxy")

\* The keys whose get_option reads the transport.
TransportRead ==
    {"http-proxy", "https-proxy", "http-cookies", "http-headers",
     "http-query-params", "http-trust-env", "http-report-uri",
     "error-http-status-codes"}

\* C39: before any set_option call, every option given to the constructor
\* is in the option store as given, ipv4 and ipv6 included when both are
\* True; the transport and the address-family override are those of a
\* session constructed without options; and get_option on a key that
\* reads the transport returns the transport's default, not the given
\* value.
C39_ConstructorVerbatim ==
    nsets = 0
    => /\ \A k \in DOMAIN initopts : options[k] = initopts[k]
       /\ \A k \in DOMAIN DefaultOptions \ DOMAIN initopts :
                options[k] = DefaultOptions[k]
       /\ http = DefaultHttp
       /\ gai = "default"
       /\ \A k \in DOMAIN initopts \cap {"http-proxy", "https-proxy"} :
                get_option(k) = NoProxy
       /\ "http-trust-env" \in DOMAIN initopts
            => get_option("http-trust-env") = "True"

\* C39 witness: a session constructed with http-proxy and with ipv4 and
\* ipv6 both True: the three are stored, no proxy and no override is set.
C39_Witness ==
    /\ nsets = 0
    /\ {"http-proxy", "ipv4", "ipv6"} \subseteq DOMAIN initopts
    /\ options["http-proxy"] = "a.proxy"
    /\ options["ipv4"] = "True" /\ options["ipv6"] = "True"
    /\ get_option("http-proxy") = NoProxy
    /\ gai = "default"

\* C40: a set_option call that raises leaves the option store, the
\* transport settings with the bindings of the adapters, and the
\* address-family override as they were before the call.
C40_FailedSetUnchanged ==
    [][(SetStep /\ oraised' # "none")
        => /\ options' = options
           /\ http' = http
           /\ gai' = gai
           /\ ciphers' = ciphers]_vars

\* C40 witness: a report URI was set, an interface bound and cleared, and
\* the second clearing raised KeyError: the report URI is still set, no
\* adapter is bound and the interface option is None.
C40_Witness ==
    /\ nsets = 4
    /\ lastset = [key |-> "interface", value |-> "None"]
    /\ oraised = "KeyError"
    /\ get_option("http-report-uri").kind = "str"
    /\ \A a \in DOMAIN http.source : http.source[a] = "unbound"
    /\ get_option("interface") = "None"
====
